---- MODULE Spec2Model ----
(***************************************************************************)
(* Model of the industry-sector aggregation and approximate Voronoi        *)
(* tessellation of the IndustryVoronoiTab component                        *)
(* (client/src/components/industry-voronoi-tab.tsx, enhanced version) and  *)
(* of the sector colouring of IndustryVoronoiDiagram                       *)
(* (client/src/components/industry-voronoi-diagram.tsx).                   *)
(*                                                                         *)
(* JavaScript numbers are modelled as tagged values: a finite number is    *)
(* [k |-> "num", v |-> n] with n in thousandths (fixed point), and NaN,    *)
(* +Infinity, -Infinity, undefined and null are values of their own.       *)
(* Strings are TLA+ strings; an absent string field is the value UndefStr. *)
(***************************************************************************)
EXTENDS Integers, Sequences, FiniteSets, TLC

(***************************************************************************)
(* Bounds of the model.                                                    *)
(***************************************************************************)
\* largest number of enterprise records in one clustering result
MaxRecords == 3
\* largest number of points handed to computeVoronoi directly (CSV rows)
MaxPoints == 3
\* the number of rows of a file with more centroids than a cell has neighbours
MaxSpread == 8
\* the number of times the clustering result changes while the tab is mounted
MaxChanges == 2
\* the calls of runClustering that can await while a later call is made
MaxEarlier == 1
\* the longest k_list of a request to the mock clustering route
MaxKList == 2

(***************************************************************************)
(* JavaScript values.                                                      *)
(***************************************************************************)
\* one unit of a coordinate, in the fixed-point representation of a number
Unit == 1000

Num(n) == [k |-> "num", v |-> n]
NaN == [k |-> "nan", v |-> 0]
PosInf == [k |-> "inf", v |-> 1]
NegInf == [k |-> "inf", v |-> -1]
Undefined == [k |-> "undefined", v |-> 0]
Null == [k |-> "null", v |-> 0]
\* an absent (undefined) string-valued field
UndefStr == "\\undefined"

\* typeof v === 'number'
IsNumber(v) == v.k \in {"num", "nan", "inf"}
\* isNaN(v), for v a number
IsNaN(v) == v.k = "nan"
\* isFinite(v), for v a number
IsFinite(v) == v.k = "num"
\* the sign of a non-NaN number: -1, 0 or 1
Sign(a) == IF a.v > 0 THEN 1 ELSE IF a.v < 0 THEN -1 ELSE 0
Abs(n) == IF n < 0 THEN 0 - n ELSE n
\* integer quotient rounded towards zero
Quot(a, b) == LET q == Abs(a) \div Abs(b)
              IN IF (a < 0) = (b < 0) THEN q ELSE 0 - q

\* a + b
Add(a, b) ==
    IF a.k = "nan" \/ b.k = "nan" THEN NaN
    ELSE IF a.k = "inf" /\ b.k = "inf" THEN (IF a.v = b.v THEN a ELSE NaN)
    ELSE IF a.k = "inf" THEN a
    ELSE IF b.k = "inf" THEN b
    ELSE Num(a.v + b.v)
\* -a
Neg(a) == IF a.k = "nan" THEN NaN ELSE [k |-> a.k, v |-> 0 - a.v]
\* a - b
Sub(a, b) == Add(a, Neg(b))
\* a * b
Mul(a, b) ==
    IF a.k = "nan" \/ b.k = "nan" THEN NaN
    ELSE IF a.k = "inf" \/ b.k = "inf"
         THEN (IF Sign(a) * Sign(b) = 0 THEN NaN
               ELSE IF Sign(a) * Sign(b) > 0 THEN PosInf ELSE NegInf)
    ELSE Num(Quot(a.v * b.v, Unit))
\* a / b
Div(a, b) ==
    IF a.k = "nan" \/ b.k = "nan" THEN NaN
    ELSE IF a.k = "inf" /\ b.k = "inf" THEN NaN
    ELSE IF a.k = "inf" THEN (IF Sign(a) * Sign(b) < 0 THEN NegInf ELSE PosInf)
    ELSE IF b.k = "inf" THEN Num(0)
    ELSE IF b.v = 0
         THEN (IF a.v = 0 THEN NaN ELSE IF a.v > 0 THEN PosInf ELSE NegInf)
    ELSE Num(Quot(a.v * Unit, b.v))
\* a < b (false when either is NaN)
Less(a, b) ==
    IF a.k = "nan" \/ b.k = "nan" THEN FALSE
    ELSE IF a.k = "inf" /\ b.k = "inf" THEN a.v < b.v
    ELSE IF a.k = "inf" THEN a.v < 0
    ELSE IF b.k = "inf" THEN b.v > 0
    ELSE a.v < b.v
\* Math.min(a, b) and Math.max(a, b)
MathMin(a, b) ==
    IF a.k = "nan" \/ b.k = "nan" THEN NaN ELSE IF Less(b, a) THEN b ELSE a
MathMax(a, b) ==
    IF a.k = "nan" \/ b.k = "nan" THEN NaN ELSE IF Less(a, b) THEN b ELSE a

\* the largest r in lo..hi with r * r <= n (bisection)
RECURSIVE ISqrt(_, _, _)
ISqrt(n, lo, hi) ==
    IF lo >= hi THEN lo
    ELSE LET mid == (lo + hi + 1) \div 2
         IN IF mid * mid <= n THEN ISqrt(n, mid, hi) ELSE ISqrt(n, lo, mid - 1)
\* Math.sqrt(a)
MathSqrt(a) ==
    IF a.k = "nan" THEN NaN
    ELSE IF a.k = "inf" THEN (IF a.v > 0 THEN PosInf ELSE NaN)
    ELSE IF a.v < 0 THEN NaN
    ELSE Num(ISqrt(a.v * Unit, 0, a.v + Unit))
\* Math.pow(a, 2) and a ** 2
Square(a) == Mul(a, a)

\* parseFloat(v): undefined and null give NaN, a number gives itself
ParseFloat(v) == IF IsNumber(v) THEN v ELSE NaN
\* v || 0 for a number v: NaN and 0 are falsy
OrZero(v) == IF v.k = "nan" \/ (v.k = "num" /\ v.v = 0) THEN Num(0) ELSE v
\* s || d for a string field s: undefined and '' are falsy
OrStr(s, d) == IF s = UndefStr \/ s = "" THEN d ELSE s

(***************************************************************************)
(* String order: Array.prototype.sort() compares strings by code unit.     *)
(***************************************************************************)
\* the characters of the model's strings, in code-unit order
Chars == " ().0123456789ABCDEFGHIJKLMNOPQRSTUVWXYZabcdefghijklmnopqrstuvwxyz"
CodeOf(c) == CHOOSE i \in 1..Len(Chars) : SubSeq(Chars, i, i) = c
RECURSIVE StrLess(_, _)
\* a < b for strings
StrLess(a, b) ==
    IF b = "" THEN FALSE
    ELSE IF a = "" THEN TRUE
    ELSE LET ca == CodeOf(SubSeq(a, 1, 1))
             cb == CodeOf(SubSeq(b, 1, 1))
         IN IF ca # cb THEN ca < cb
            ELSE StrLess(SubSeq(a, 2, Len(a)), SubSeq(b, 2, Len(b)))
RECURSIVE SortStrings(_)
\* Array.from(set).sort(): the strings of the set in ascending order
SortStrings(S) ==
    IF S = {} THEN <<>>
    ELSE LET m == CHOOSE s \in S : \A t \in S : ~StrLess(t, s)
         IN <<m>> \o SortStrings(S \ {m})
\* arr.indexOf(s), 0-based; -1 when absent
IndexOf(arr, s) ==
    IF \E i \in 1..Len(arr) : arr[i] = s
    THEN (CHOOSE i \in 1..Len(arr) : arr[i] = s /\ \A j \in 1..(i - 1) : arr[j] # s) - 1
    ELSE -1

\* the store's clustering result, shared by the two views
VARIABLES clusterResults
\* IndustryVoronoiTab: its React state and the position of loadIndustryData
VARIABLES industryData, voronoiCells, loading, error, pc
\* IndustryVoronoiDiagram: its React state and the position of loadVoronoiData
VARIABLES voronoiData, diagramLoading, diagramError, diagramPc
\* the sector colours of the run on the previous clustering result (history)
VARIABLES previousRun
\* ClusteringPage: the points InteractiveZoomSpaceWrapper hands to the zoom
\* space and the position of its render
VARIABLES transformedData, zoomPc
\* IndustryVoronoiTab: the runs of loadIndustryData started for an earlier
\* clustering result and still awaiting (how many at fetch, how many at
\* response.text()), and the number of changes of the result so far
VARIABLES inFlight, changes
\* useClusteringStore: the fields of the store (error is storeError here, the
\* tab has an error of its own), the latest call of runClustering and the
\* calls made before it that are still awaiting
VARIABLES parameters, apiConfig, infoFile, isRunning, progress, logs, results,
          storeError, run, earlier
\* the server: the request POST /api/clustering/run is handling and its answer
VARIABLES exchange

tabVars == <<industryData, voronoiCells, loading, error, pc>>
diagramVars == <<voronoiData, diagramLoading, diagramError, diagramPc>>
pageVars == <<transformedData, zoomPc>>
\* the state outside the two Voronoi views
raceVars == <<inFlight, changes>>
settingVars == <<parameters, apiConfig, infoFile>>
outcomeVars == <<isRunning, progress, logs, results, storeError>>
storeVars == <<settingVars, outcomeVars, run, earlier>>
serverVars == <<exchange>>
restVars == <<pageVars, raceVars, storeVars, serverVars>>
vars == <<clusterResults, tabVars, diagramVars, previousRun, restVars>>

(***************************************************************************)
(* Sector aggregation (loadIndustryData, results branch).                  *)
(*                                                                         *)
(* clusterResults.clusterResult.companies is a list of companies, each     *)
(* with a list of enterprises; the two nested forEach loops visit the      *)
(* enterprises in order.  The model holds that flattened list: every       *)
(* enterprise record carries the fields of its company that the loop       *)
(* reads (company_sector_name, company_sector_unique_id).                  *)
(***************************************************************************)
\* the sector name without the default
SectorNameOfNoDefault(e) == OrStr(e.sector_name, OrStr(e.company_sector_name, ""))
\* enterprise.sector_name || company.sector_name || 'Unknown'
SectorNameOf(e) == OrStr(e.sector_name, OrStr(e.company_sector_name, "Unknown"))
\* enterprise.sector_unique_id?.toString() || company.sector_unique_id?.toString() || sectorName
SectorCodeOf(e) ==
    OrStr(e.sector_unique_id, OrStr(e.company_sector_unique_id, SectorNameOf(e)))
\* enterprise.pca2_x !== undefined && enterprise.pca2_y !== undefined
HasCoordinates(e) == e.pca2_x # Undefined /\ e.pca2_y # Undefined

\* index of the entry of sectorMap (a Map, kept in insertion order) with this key; 0 if none
MapIndex(sectorMap, name) ==
    IF \E i \in 1..Len(sectorMap) : sectorMap[i].name = name
    THEN CHOOSE i \in 1..Len(sectorMap) : sectorMap[i].name = name
    ELSE 0

\* the body of the inner forEach: one enterprise added to sectorMap
AddEnterprise(sectorMap, e) ==
    IF ~HasCoordinates(e) THEN sectorMap
    ELSE LET sectorName == SectorNameOf(e)
             withKey == IF MapIndex(sectorMap, sectorName) = 0
                        THEN Append(sectorMap, [name |-> sectorName,
                                                code |-> SectorCodeOf(e),
                                                x_sum |-> Num(0),
                                                y_sum |-> Num(0),
                                                count |-> 0])
                        ELSE sectorMap
             i == MapIndex(withKey, sectorName)
             sector == withKey[i]
         IN [withKey EXCEPT ![i] =
                [sector EXCEPT !.x_sum = Add(sector.x_sum, OrZero(ParseFloat(e.pca2_x))),
                               !.y_sum = Add(sector.y_sum, OrZero(ParseFloat(e.pca2_y))),
                               !.count = sector.count + 1]]

RECURSIVE BuildSectorMap(_, _)
\* the two forEach loops over the enterprises, from the left
BuildSectorMap(sectorMap, enterprises) ==
    IF enterprises = <<>> THEN sectorMap
    ELSE BuildSectorMap(AddEnterprise(sectorMap, Head(enterprises)), Tail(enterprises))

\* shortenIndustryName(name, 15): names of at most 15 characters are kept;
\* a longer name without a usable space is cut to 12 characters plus '...'
shortenIndustryName(name) ==
    IF Len(name) <= 15 THEN name ELSE SubSeq(name, 1, 12) \o "..."

\* one sector of sectorMap as a centroid point
CentroidOf(sector) ==
    [sector_code |-> sector.code,
     field_name |-> sector.name \o " (" \o ToString(sector.count) \o " doanh nghiep)",
     labels |-> sector.name,
     name_short |-> shortenIndustryName(sector.name),
     emb_x |-> Div(sector.x_sum, Num(sector.count * Unit)),
     emb_y |-> Div(sector.y_sum, Num(sector.count * Unit))]

\* Array.from(sectorMap.values()).filter(sector => sector.count > 0).map(...)
IndustryPoints(enterprises) ==
    LET sectorMap == BuildSectorMap(<<>>, enterprises)
        kept == SelectSeq(sectorMap, LAMBDA sector : sector.count > 0)
    IN [i \in 1..Len(kept) |-> CentroidOf(kept[i])]

(***************************************************************************)
(* Approximate Voronoi tessellation (computeVoronoi, enhanced version).    *)
(***************************************************************************)
\* the threshold of the first version of computeVoronoi (points.length < 3)
MinPointsFirstVersion == 3
\* points.length < 2 and validPoints.length < 2 return []
MinPoints == 2
\* the bounding box is the box of the sites widened by 2 on each side
BoxPadding == 2000
\* distances.slice(0, Math.min(6, distances.length))
MaxNeighbors == 6
\* extension = Math.min(length / 2, 1.5)
ExtensionCap == 1500
\* the corner vertex is moved by 0.3 of the normalised offset
CornerFactor == 300
\* the circular fallback cell: 12 vertices at radius 0.8
numVertices == 12
radius == 800
\* Math.cos and Math.sin of 2 * PI * i / 12 for i = 0..11, in thousandths
Cos12 == <<1000, 866, 500, 0, -500, -866, -1000, -866, -500, 0, 500, 866>>
Sin12 == <<0, 500, 866, 1000, 866, 500, 0, -500, -866, -1000, -866, -500>>

colors == <<"#e74c3c50", "#3498db50", "#2ecc7140", "#f39c1230",
            "#9b59b640", "#1abc9c30", "#e67e2240", "#34495e50",
            "#16a08560", "#27ae6040", "#2980b950", "#8e44ad40",
            "#2c3e5060", "#f1c40f50", "#e67e2260", "#95a5a640",
            "#ff6b6b50", "#4ecdc440", "#45b7d160", "#96ceb450">>

\* the filter of validPoints: both coordinates are finite numbers
IsValidPoint(p) ==
    /\ IsNumber(p.emb_x) /\ IsNumber(p.emb_y)
    /\ ~IsNaN(p.emb_x) /\ ~IsNaN(p.emb_y)
    /\ IsFinite(p.emb_x) /\ IsFinite(p.emb_y)
\* the valid points collected newest first (unshift instead of push)
ValidPointsNewestFirst(points) ==
    LET kept == SelectSeq(points, IsValidPoint)
    IN [i \in 1..Len(kept) |-> kept[Len(kept) + 1 - i]]
ValidPoints(points) == SelectSeq(points, IsValidPoint)

RECURSIVE MinOf(_)
\* Math.min(...values), for a non-empty list
MinOf(values) ==
    IF Len(values) = 1 THEN values[1] ELSE MathMin(values[1], MinOf(Tail(values)))
RECURSIVE MaxOf(_)
\* Math.max(...values), for a non-empty list
MaxOf(values) ==
    IF Len(values) = 1 THEN values[1] ELSE MathMax(values[1], MaxOf(Tail(values)))

\* the padded bounding box of the valid points
BoundingBox(validPoints) ==
    LET xValues == [i \in 1..Len(validPoints) |-> validPoints[i].emb_x]
        yValues == [i \in 1..Len(validPoints) |-> validPoints[i].emb_y]
    IN [xMin |-> Sub(MinOf(xValues), Num(BoxPadding)),
        xMax |-> Add(MaxOf(xValues), Num(BoxPadding)),
        yMin |-> Sub(MinOf(yValues), Num(BoxPadding)),
        yMax |-> Add(MaxOf(yValues), Num(BoxPadding))]

\* Array.from(new Set(validPoints.map(d => d.labels || 'Unknown'))).sort()
UniqueLabels(validPoints) ==
    SortStrings({OrStr(validPoints[i].labels, "Unknown") : i \in 1..Len(validPoints)})

\* distanceCalc(p1, p2): the squared distance of two {x, y} objects
distanceCalc(p1, p2) == Add(Square(Sub(p1.x, p2.x)), Square(Sub(p1.y, p2.y)))

\* the entry of the distances list for validPoints[idx], seen from point
DistanceEntry(validPoints, point, idx) ==
    [distance |-> MathSqrt(Add(Square(Sub(validPoints[idx].emb_x, point.emb_x)),
                               Square(Sub(validPoints[idx].emb_y, point.emb_y)))),
     index |-> idx,
     x |-> validPoints[idx].emb_x,
     y |-> validPoints[idx].emb_y]

RECURSIVE InsertByDistance(_, _)
\* d put into a list sorted by distance, after the entries that are not farther
InsertByDistance(sorted, d) ==
    IF sorted = <<>> THEN <<d>>
    ELSE IF Less(d.distance, Head(sorted).distance) THEN <<d>> \o sorted
    ELSE <<Head(sorted)>> \o InsertByDistance(Tail(sorted), d)
RECURSIVE SortByDistance(_, _)
\* .sort((a, b) => a.distance - b.distance): a stable ascending sort
SortByDistance(sorted, rest) ==
    IF rest = <<>> THEN sorted
    ELSE SortByDistance(InsertByDistance(sorted, Head(rest)), Tail(rest))

\* the distances list of validPoints[index]: every other point, nearest first
Distances(validPoints, index) ==
    LET others == SelectSeq([idx \in 1..Len(validPoints) |-> idx],
                            LAMBDA idx : idx # index)
        entries == [j \in 1..Len(others) |->
                       DistanceEntry(validPoints, validPoints[index], others[j])]
    IN SortByDistance(<<>>, entries)

\* the distances list without the slice
NearestNeighborsUncapped(validPoints, index) == Distances(validPoints, index)
\* distances.slice(0, Math.min(6, distances.length))
NearestNeighbors(validPoints, index) ==
    LET distances == Distances(validPoints, index)
        n == IF Len(distances) < MaxNeighbors THEN Len(distances) ELSE MaxNeighbors
    IN SubSeq(distances, 1, n)

\* the vertices pushed in iteration i (1-based) of the loop over nearestNeighbors:
\* the bisector vertex and, except in the last iteration, the corner vertex
NeighborVertices(point, nearestNeighbors, i) ==
    LET n == Len(nearestNeighbors)
        neighbor == nearestNeighbors[i]
        nextNeighbor == nearestNeighbors[(i % n) + 1]
        two == Num(2 * Unit)
        midX1 == Div(Add(point.emb_x, neighbor.x), two)
        midY1 == Div(Add(point.emb_y, neighbor.y), two)
        dx == Sub(neighbor.x, point.emb_x)
        dy == Sub(neighbor.y, point.emb_y)
        length == MathSqrt(Add(Mul(dx, dx), Mul(dy, dy)))
        perpX == Div(Neg(dy), length)
        perpY == Div(dx, length)
        extension == MathMin(Div(length, two), Num(ExtensionCap))
        bisector == <<Add(midX1, Mul(perpX, extension)),
                      Add(midY1, Mul(perpY, extension))>>
        cornerX == Div(Add(neighbor.x, nextNeighbor.x), two)
        cornerY == Div(Add(neighbor.y, nextNeighbor.y), two)
        between == MathSqrt(distanceCalc(neighbor, nextNeighbor))
        corner == <<Add(cornerX,
                        Mul(Div(Sub(Add(perpX, nextNeighbor.x), neighbor.x), between),
                            Num(CornerFactor))),
                    Add(cornerY,
                        Mul(Div(Sub(Add(perpY, nextNeighbor.y), neighbor.y), between),
                            Num(CornerFactor)))>>
    IN IF i < n THEN <<bisector, corner>> ELSE <<bisector>>

RECURSIVE BisectorVertices(_, _, _)
\* the vertices pushed by iterations i..n of the loop over nearestNeighbors
BisectorVertices(point, nearestNeighbors, i) ==
    IF i > Len(nearestNeighbors) THEN <<>>
    ELSE NeighborVertices(point, nearestNeighbors, i)
             \o BisectorVertices(point, nearestNeighbors, i + 1)

\* the polygon built from perpendicular bisectors, closed by repeating its first vertex
BisectorCell(point, nearestNeighbors) ==
    LET cellVertices == BisectorVertices(point, nearestNeighbors, 1)
    IN IF Len(cellVertices) > 2 THEN Append(cellVertices, cellVertices[1])
       ELSE cellVertices

\* the fallback for isolated points: numVertices vertices on a circle around the point
CircularCell(point) ==
    [i \in 1..numVertices |->
        <<Add(point.emb_x, Mul(Num(radius), Num(Cos12[i]))),
          Add(point.emb_y, Mul(Num(radius), Num(Sin12[i])))>>]

\* cellVertices with the bisector branch taken from one neighbour on
CellVerticesFromOneNeighbor(validPoints, index) ==
    LET nearestNeighbors == NearestNeighbors(validPoints, index)
    IN IF Len(nearestNeighbors) >= 1
       THEN BisectorCell(validPoints[index], nearestNeighbors)
       ELSE CircularCell(validPoints[index])
\* cellVertices of validPoints[index], before clamping
CellVertices(validPoints, index) ==
    LET nearestNeighbors == NearestNeighbors(validPoints, index)
    IN IF Len(nearestNeighbors) >= 2
       THEN BisectorCell(validPoints[index], nearestNeighbors)
       ELSE CircularCell(validPoints[index])

\* [Math.max(xMin, Math.min(xMax, x)), Math.max(yMin, Math.min(yMax, y))]
ClampVertex(box, vertex) ==
    <<MathMax(box.xMin, MathMin(box.xMax, vertex[1])),
      MathMax(box.yMin, MathMin(box.yMax, vertex[2]))>>

\* colors[colorIndex % colors.length], colorIndex from the sorted unique labels
CellColor(uniqueLabels, point, index) ==
    LET labelIndex == IndexOf(uniqueLabels, OrStr(point.labels, "Unknown"))
        colorIndex == IF labelIndex >= 0 THEN labelIndex ELSE (index - 1) % Len(colors)
    IN colors[(colorIndex % Len(colors)) + 1]

\* point.name_short || point.labels.substring(0, 15) + '...' throws a TypeError
\* when name_short is falsy and labels is undefined
LabelsShortThrows(point) ==
    OrStr(point.name_short, "") = "" /\ point.labels = UndefStr
\* point.name_short || point.labels.substring(0, 15) + '...'
LabelsShort(point) ==
    IF OrStr(point.name_short, "") # "" THEN point.name_short
    ELSE SubSeq(point.labels, 1, IF Len(point.labels) < 15 THEN Len(point.labels) ELSE 15)
             \o "..."

\* the cell pushed for validPoints[index] (1-based)
CellOf(validPoints, box, uniqueLabels, index) ==
    LET point == validPoints[index]
        cellVertices == CellVertices(validPoints, index)
    IN [sector_code |-> OrStr(point.sector_code, "Unknown"),
        field_name |-> OrStr(point.field_name, "Unknown"),
        labels |-> OrStr(point.labels, "Unknown"),
        labels_short |-> LabelsShort(point),
        x |-> point.emb_x,
        y |-> point.emb_y,
        color |-> CellColor(uniqueLabels, point, index),
        vertices |-> [j \in 1..Len(cellVertices) |-> ClampVertex(box, cellVertices[j])]]

\* computeVoronoi(points): [] for fewer than 2 (valid) points and when building a
\* cell throws (the catch block), otherwise one cell per valid point
computeVoronoi(points) ==
    IF Len(points) < MinPoints THEN <<>>
    ELSE LET validPoints == ValidPoints(points)
         IN IF Len(validPoints) < MinPoints THEN <<>>
            ELSE IF \E i \in 1..Len(validPoints) : LabelsShortThrows(validPoints[i])
            THEN <<>>
            ELSE LET box == BoundingBox(validPoints)
                     uniqueLabels == UniqueLabels(validPoints)
                 IN [index \in 1..Len(validPoints) |->
                        CellOf(validPoints, box, uniqueLabels, index)]

(***************************************************************************)
(* Inputs.                                                                 *)
(***************************************************************************)
\* error === null
NoError == "\\null"
\* no earlier clustering result has been shown
NoRun == [recorded |-> FALSE, tab |-> {}, diagram |-> {}]
\* POST /api/clustering/run has not been requested
NoExchange ==
    [pc |-> "idle",
     body |-> [lambda |-> Undefined, k_list |-> [isArray |-> FALSE, items |-> <<>>]],
     status |-> 0, error |-> NoError,
     result |-> [lambda |-> Undefined, k_candidates |-> <<>>, best_k |-> Undefined]]
\* the store holds no clustering result
NoResults == [present |-> FALSE, enterprises |-> <<>>]
Results(enterprises) == [present |-> TRUE, enterprises |-> enterprises]

\* the sector fields of an enterprise and of its company
SectorShapes ==
    {[sector_name |-> "Retail", company_sector_name |-> UndefStr,
      sector_unique_id |-> "7", company_sector_unique_id |-> UndefStr],
     [sector_name |-> UndefStr, company_sector_name |-> "Banking",
      sector_unique_id |-> UndefStr, company_sector_unique_id |-> "3"],
     [sector_name |-> UndefStr, company_sector_name |-> UndefStr,
      sector_unique_id |-> UndefStr, company_sector_unique_id |-> UndefStr]}
\* the coordinates of an enterprise: finite, missing, null, NaN, infinite
CoordShapes ==
    {<<Num(0), Num(0)>>, <<Num(2 * Unit), Num(0)>>, <<Num(0), Num(2 * Unit)>>,
     <<Undefined, Num(0)>>, <<Num(2 * Unit), Undefined>>,
     <<Null, Num(2 * Unit)>>, <<NaN, Num(0)>>, <<PosInf, Num(0)>>}
Enterprises ==
    {[sector_name |-> s.sector_name,
      company_sector_name |-> s.company_sector_name,
      sector_unique_id |-> s.sector_unique_id,
      company_sector_unique_id |-> s.company_sector_unique_id,
      pca2_x |-> c[1], pca2_y |-> c[2]] : s \in SectorShapes, c \in CoordShapes}
EnterpriseLists == UNION {[1..n -> Enterprises] : n \in 0..MaxRecords}

\* the label fields of a row of industry_data.csv: labels with and without a
\* short name
LabelShapes ==
    {[labels |-> "Retail", name_short |-> UndefStr],
     [labels |-> "Banking", name_short |-> "Bank"]}
\* emb_x and emb_y of a row after the transform: finite numbers
RowCoordShapes ==
    {<<Num(0), Num(0)>>, <<Num(2 * Unit), Num(0)>>, <<Num(Unit), Num(2 * Unit)>>}
\* one row of industry_data.csv as Papa.parse hands it over
CsvRow(sector_code, l, c) ==
    [sector_code |-> sector_code, field_name |-> "Field",
     labels |-> l.labels, name_short |-> l.name_short,
     emb_x |-> c[1], emb_y |-> c[2]]
\* rows with labels at finite coordinates; rows whose labels are empty or
\* absent; a row with an infinite coordinate; a row the filter of complete
\* drops (sector_code empty)
CsvRows ==
    {CsvRow("C" \o ToString(c[1].v + c[2].v), l, c) :
        l \in LabelShapes, c \in RowCoordShapes}
    \cup {CsvRow("E", [labels |-> "", name_short |-> UndefStr],
                 <<Num(2 * Unit), Num(0)>>),
          CsvRow("M", [labels |-> UndefStr, name_short |-> "Misc"],
                 <<Num(Unit), Num(2 * Unit)>>),
          CsvRow("U", [labels |-> UndefStr, name_short |-> UndefStr],
                 <<Num(0), Num(0)>>),
          CsvRow("I", [labels |-> "Retail", name_short |-> UndefStr],
                 <<PosInf, Num(0)>>),
          CsvRow("", [labels |-> "Retail", name_short |-> UndefStr],
                 <<Num(0), Num(0)>>)}
CsvRowLists == UNION {[1..n -> CsvRows] : n \in 0..MaxPoints}

(***************************************************************************)
(* useClusteringStore: the state after create().                           *)
(***************************************************************************)
\* results === null
NullResults == [isNull |-> TRUE]
\* k: 3 and the other values a form can put there
NumberK(n) == [kind |-> "number", v |-> n, list |-> <<>>]
ListK(list) == [kind |-> "list", v |-> 0, list |-> list]
\* level_value: [] and the absent value
LevelValues == [kind |-> "list", v |-> <<>>]
NoLevelValue == [kind |-> "undefined", v |-> <<>>]
\* parameters: {lambda: 0.5, k: 3, pca_dim: 128, level_value: []}
InitialParameters ==
    [lambda |-> Num(Unit \div 2), k |-> NumberK(3), pca_dim |-> 128,
     level_value |-> LevelValues]
\* a response of the API without anything in it
EmptyResponse ==
    [format |-> "none", labels |-> <<>>, labels_csv |-> FALSE,
     projection_plots |-> 0, metric_plots |-> 0]
\* requestBody of clusteringApi.runClustering: the parameters, and the info
\* file if infoFileBase64 is truthy (UndefStr: no such field)
RequestBody(params, infoFileBase64) ==
    [pca_dim |-> params.pca_dim, lambda |-> params.lambda, k |-> params.k,
     level_value |-> params.level_value,
     info_quy_mo_b64 |-> IF infoFileBase64 \in {UndefStr, ""}
                         THEN UndefStr
                         ELSE infoFileBase64]
\* no call of runClustering is in progress and none has been made; call
\* alternates between 0 and 1 from one call to the next, trail holds the
\* values the call has set progress to, fileRead what became of the info
\* file, requestBody what the call has sent to the API
NoCall ==
    [pc |-> "idle", call |-> 0, parameters |-> InitialParameters,
     fileRead |-> "none", requestBody |-> RequestBody(InitialParameters, UndefStr),
     response |-> EmptyResponse, labels |-> <<>>, images |-> 0, trail |-> <<>>,
     apiCalled |-> FALSE, outcome |-> "none", reason |-> NoError]
\* the initial state of the store
StoreCreated ==
    /\ parameters = InitialParameters
    /\ apiConfig = [endpoint |-> ""]
    /\ infoFile = FALSE
    /\ isRunning = FALSE
    /\ progress = 0
    /\ logs = <<>>
    /\ results = NullResults
    /\ storeError = NoError
    /\ run = NoCall
    /\ earlier = <<>>

(***************************************************************************)
(* The component: state after construction and the steps of its effect.    *)
(* pc is the position of loadIndustryData: "effect" (scheduled), "fetch"   *)
(* (awaiting fetch), "text" (awaiting response.text()), "done".            *)
(***************************************************************************)
Mounted ==
    /\ industryData = <<>>
    /\ voronoiCells = <<>>
    /\ loading = TRUE
    /\ error = NoError
    /\ pc = "effect"
    /\ voronoiData = <<>>
    /\ diagramLoading = TRUE
    /\ diagramError = NoError
    /\ diagramPc = "effect"
    /\ previousRun = NoRun
    /\ transformedData = <<>>
    /\ zoomPc = "render"
    /\ inFlight = [fetch |-> 0, text |-> 0]
    /\ changes = 0
    /\ StoreCreated
    /\ exchange = NoExchange

\* loadIndustryData up to its first await: the clustering result is aggregated
\* and tessellated; without cells the CSV fallback is fetched
LoadIndustryData ==
    /\ pc = "effect"
    /\ error' = NoError
    /\ LET industryPoints == IF clusterResults.present
                             THEN IndustryPoints(clusterResults.enterprises)
                             ELSE <<>>
           cells == IF Len(industryPoints) > 0 THEN computeVoronoi(industryPoints)
                    ELSE <<>>
       IN /\ industryData' = IF Len(industryPoints) > 0 THEN industryPoints
                             ELSE industryData
          /\ IF Len(cells) > 0
             THEN voronoiCells' = cells /\ loading' = FALSE /\ pc' = "done"
             ELSE voronoiCells' = voronoiCells /\ loading' = TRUE /\ pc' = "fetch"
    /\ UNCHANGED <<clusterResults, diagramVars, previousRun, restVars>>

\* the outer catch, had it left loading as it was
FetchNotOkStillLoading ==
    /\ pc = "fetch"
    /\ error' = "Loading error: No data available. Please run clustering analysis first or ensure industry_data.csv exists."
    /\ pc' = "done"
    /\ UNCHANGED <<clusterResults, industryData, voronoiCells, loading, diagramVars,
                   previousRun, restVars>>

\* fetch resolves with response.ok false: the throw is caught by the outer catch
FetchNotOk ==
    /\ pc = "fetch"
    /\ error' = "Loading error: No data available. Please run clustering analysis first or ensure industry_data.csv exists."
    /\ loading' = FALSE
    /\ pc' = "done"
    /\ UNCHANGED <<clusterResults, industryData, voronoiCells, diagramVars, previousRun, restVars>>

\* fetch resolves with response.ok true: response.text() is awaited
FetchOk ==
    /\ pc = "fetch"
    /\ pc' = "text"
    /\ UNCHANGED <<clusterResults, industryData, voronoiCells, loading, error,
                   diagramVars, previousRun, restVars>>

\* row && row.sector_code && row.field_name && both coordinates are numbers, not NaN
IsValidRow(row) ==
    /\ OrStr(row.sector_code, "") # ""
    /\ OrStr(row.field_name, "") # ""
    /\ IsNumber(row.emb_x) /\ IsNumber(row.emb_y)
    /\ ~IsNaN(row.emb_x) /\ ~IsNaN(row.emb_y)

\* response.text() resolves and Papa.parse calls complete with the rows
\* (no rows at all stands for the empty file)
CsvLoaded(rows) ==
    /\ pc = "text"
    /\ LET validData == SelectSeq(rows, IsValidRow)
           cells == computeVoronoi(validData)
       IN IF rows = <<>>
          THEN /\ error' = "Loading error: CSV file is empty. Please run clustering analysis first."
               /\ UNCHANGED <<industryData, voronoiCells>>
          ELSE IF Len(validData) = 0
          THEN /\ error' = "Data processing error: No valid data points found. Please run clustering analysis first."
               /\ UNCHANGED <<industryData, voronoiCells>>
          ELSE IF Len(cells) = 0
          THEN /\ error' = "Data processing error: Failed to generate Voronoi cells"
               /\ industryData' = validData
               /\ UNCHANGED voronoiCells
          ELSE /\ industryData' = validData
               /\ voronoiCells' = cells
               /\ UNCHANGED error
    /\ loading' = FALSE
    /\ pc' = "done"
    /\ UNCHANGED <<clusterResults, diagramVars, previousRun, restVars>>

\* regenerateVoronoi: the cells are recomputed from industryData
RegenerateVoronoi ==
    /\ pc = "done"
    /\ Len(industryData) > 0
    /\ voronoiCells' = computeVoronoi(industryData)
    /\ loading' = FALSE
    /\ UNCHANGED <<clusterResults, industryData, error, pc, diagramVars, previousRun, restVars>>

(***************************************************************************)
(* Spec: the component mounted over a clustering result, with no           *)
(* industry_data.csv to fall back to.                                      *)
(***************************************************************************)
Init ==
    /\ clusterResults \in {NoResults} \cup {Results(es) : es \in EnterpriseLists}
    /\ Mounted

Next == LoadIndustryData \/ FetchNotOk

Spec == Init /\ [][Next]_vars

(***************************************************************************)
(* SpecCsv: the component mounted without a clustering result; the cells   *)
(* come from the rows of industry_data.csv.                                *)
(***************************************************************************)
InitCsv ==
    /\ clusterResults = NoResults
    /\ Mounted

NextCsv ==
    \/ LoadIndustryData
    \/ FetchOk
    \/ \E rows \in CsvRowLists : CsvLoaded(rows)
    \/ RegenerateVoronoi

SpecCsv == InitCsv /\ [][NextCsv]_vars

(***************************************************************************)
(* Properties of the sector aggregation, checked under Spec.               *)
(***************************************************************************)
\* the aggregation of the clustering result has run
Aggregated == pc # "effect" /\ clusterResults.present

\* a coordinate value that is a finite number
IsFiniteCoord(v) == v.k = "num"
\* the record has two finite coordinates
HasFiniteCoordinates(e) == IsFiniteCoord(e.pca2_x) /\ IsFiniteCoord(e.pca2_y)

\* the positions in the input of the records of this sector with finite coordinates
FiniteMembers(name) ==
    {i \in 1..Len(clusterResults.enterprises) :
        /\ SectorNameOf(clusterResults.enterprises[i]) = name
        /\ HasFiniteCoordinates(clusterResults.enterprises[i])}

RECURSIVE SumOver(_, _)
\* the sum of f[i] over the positions i of I
SumOver(f, I) ==
    IF I = {} THEN 0
    ELSE LET i == CHOOSE j \in I : TRUE IN f[i] + SumOver(f, I \ {i})

\* the arithmetic mean of f[i] over the positions i of I, as a number
MeanOver(f, I) == Num(Quot(SumOver(f, I), Cardinality(I)))

\* C1: every centroid's x and y are the arithmetic means of x and y over
\* exactly the input records of its sector that have finite coordinates
C1_AggregationCorrectness ==
    Aggregated =>
        \A c \in 1..Len(industryData) :
            LET members == FiniteMembers(industryData[c].labels)
                xs == [i \in members |-> clusterResults.enterprises[i].pca2_x.v]
                ys == [i \in members |-> clusterResults.enterprises[i].pca2_y.v]
            IN /\ members # {}
               /\ industryData[c].emb_x = MeanOver(xs, members)
               /\ industryData[c].emb_y = MeanOver(ys, members)

\* the records whose coordinates are both present and finite numbers
GoodRecords(enterprises) == SelectSeq(enterprises, HasFiniteCoordinates)

\* C2: records with a missing, null or non-finite coordinate are excluded:
\* the centroids (coordinates and member counts) are those of the input
\* without these records
C2_BadCoordinatesExcluded ==
    Aggregated => industryData = IndustryPoints(GoodRecords(clusterResults.enterprises))

\* the sector names that occur among the records with valid coordinates
ValidSectorNames ==
    {SectorNameOf(clusterResults.enterprises[i]) :
        i \in {j \in 1..Len(clusterResults.enterprises) :
                  HasFiniteCoordinates(clusterResults.enterprises[j])}}

\* C3: there is one centroid for each sector name (with "Unknown") that occurs
\* among the records with valid coordinates, and no other centroid
C3_GroupingCompleteness ==
    Aggregated =>
        /\ Len(industryData) = Cardinality(ValidSectorNames)
        /\ {industryData[c].labels : c \in 1..Len(industryData)} = ValidSectorNames

\* the member count of the centroid of this sector
MemberCount(name) ==
    LET sectorMap == BuildSectorMap(<<>>, clusterResults.enterprises)
    IN sectorMap[MapIndex(sectorMap, name)].count

\* C4: every centroid has at least one member, a sector name of its own and
\* finite coordinates
C4_CentroidInvariant ==
    Aggregated =>
        /\ \A c \in 1..Len(industryData) :
              /\ MemberCount(industryData[c].labels) >= 1
              /\ IsFinite(industryData[c].emb_x)
              /\ IsFinite(industryData[c].emb_y)
        /\ \A c, d \in 1..Len(industryData) :
              industryData[c].labels = industryData[d].labels => c = d

(***************************************************************************)
(* Properties of computeVoronoi, checked under SpecCsv: industryData is    *)
(* the list computeVoronoi was applied to and voronoiCells its result.     *)
(***************************************************************************)
\* computeVoronoi has been applied to industryData
Tessellated == pc = "done" /\ Len(industryData) > 0

\* a === b for numbers: NaN is equal to nothing
NumEq(a, b) == a.k # "nan" /\ b.k # "nan" /\ a = b
\* two vertices with equal coordinates
VertexEq(v, w) == NumEq(v[1], w[1]) /\ NumEq(v[2], w[2])

\* the point has finite coordinates
HasFinitePosition(p) == IsFiniteCoord(p.emb_x) /\ IsFiniteCoord(p.emb_y)
\* the point has a label or a short name
HasLabel(p) == p.labels # UndefStr \/ OrStr(p.name_short, "") # ""
\* a valid centroid: finite coordinates and a label or short name
IsValidCentroid(p) == HasFinitePosition(p) /\ HasLabel(p)
\* the positions in industryData of the points with finite coordinates
FinitePositions == {i \in 1..Len(industryData) : HasFinitePosition(industryData[i])}
\* the i-th of the positions of I, in ascending order
NthOf(I, i) == CHOOSE k \in I : Cardinality({j \in I : j < k}) = i - 1

\* C5: applied to n valid centroids, computeVoronoi returns n cells when
\* n >= 2 and no cell when n < 2
C5_TessellationCardinality ==
    (Tessellated /\ \A i \in 1..Len(industryData) : IsValidCentroid(industryData[i]))
        => IF Len(industryData) >= 2
           THEN Len(voronoiCells) = Len(industryData)
           ELSE voronoiCells = <<>>

\* two valid centroids, the smallest input that is tessellated, give two cells
C5_Witness ==
    /\ Tessellated
    /\ Len(industryData) = 2
    /\ \A i \in 1..Len(industryData) : IsValidCentroid(industryData[i])
    /\ Len(voronoiCells) = 2

\* C6: every cell has at least 3 vertices before the closing repeat and its
\* first vertex equals its last vertex
C6_PolygonClosure ==
    Tessellated =>
        \A c \in 1..Len(voronoiCells) :
            LET vertices == voronoiCells[c].vertices
            IN /\ Len(vertices) - 1 >= 3
               /\ VertexEq(vertices[1], vertices[Len(vertices)])

\* a <= b for numbers (false when either is NaN)
LessEq(a, b) == Less(a, b) \/ NumEq(a, b)
\* the least and the greatest of the values v[i], i in I, of finite numbers
LeastOf(v, I) == CHOOSE m \in {v[i] : i \in I} : \A i \in I : m <= v[i]
GreatestOf(v, I) == CHOOSE m \in {v[i] : i \in I} : \A i \in I : m >= v[i]

\* C7: every vertex of every cell lies in the bounding box of the centroids
\* widened by the padding on each side
C7_BoundingContainment ==
    (Tessellated /\ Len(voronoiCells) > 0) =>
        LET xs == [i \in FinitePositions |-> industryData[i].emb_x.v]
            ys == [i \in FinitePositions |-> industryData[i].emb_y.v]
            xLow == Num(LeastOf(xs, FinitePositions) - BoxPadding)
            xHigh == Num(GreatestOf(xs, FinitePositions) + BoxPadding)
            yLow == Num(LeastOf(ys, FinitePositions) - BoxPadding)
            yHigh == Num(GreatestOf(ys, FinitePositions) + BoxPadding)
        IN \A c \in 1..Len(voronoiCells) :
               \A j \in 1..Len(voronoiCells[c].vertices) :
                   LET vertex == voronoiCells[c].vertices[j]
                   IN /\ LessEq(xLow, vertex[1]) /\ LessEq(vertex[1], xHigh)
                      /\ LessEq(yLow, vertex[2]) /\ LessEq(vertex[2], yHigh)

\* C9: the cells are in the order of the input: the i-th cell carries the
\* sector code, the label ('Unknown' for a point without one) and the
\* position of the i-th input point with finite coordinates
C9_OrderPreservation ==
    (Tessellated /\ Len(voronoiCells) > 0) =>
        /\ Len(voronoiCells) = Cardinality(FinitePositions)
        /\ \A i \in 1..Len(voronoiCells) :
              LET point == industryData[NthOf(FinitePositions, i)]
              IN /\ voronoiCells[i].x = point.emb_x
                 /\ voronoiCells[i].y = point.emb_y
                 /\ voronoiCells[i].sector_code = point.sector_code
                 /\ voronoiCells[i].labels =
                        (IF point.labels \in {UndefStr, ""} THEN "Unknown" ELSE point.labels)

\* an input with a point of infinite coordinates before two valid points at
\* different places: the cells are those of the second and third point
C9_Witness ==
    /\ Tessellated
    /\ Len(industryData) = 3
    /\ ~HasFinitePosition(industryData[1])
    /\ Len(voronoiCells) = 2
    /\ voronoiCells[1].x # voronoiCells[2].x
    /\ voronoiCells[1].x = industryData[2].emb_x

\* the positions in industryData of the valid centroids
ValidCentroids == {i \in 1..Len(industryData) : IsValidCentroid(industryData[i])}

\* C10: malformed records do not abort the tessellation: when at least two
\* valid centroids remain, every one of them has its cell
C10_MalformedRecordsSkipped ==
    (Tessellated /\ Cardinality(ValidCentroids) >= 2) =>
        \A i \in ValidCentroids :
            \E c \in 1..Len(voronoiCells) :
                /\ voronoiCells[c].x = industryData[i].emb_x
                /\ voronoiCells[c].y = industryData[i].emb_y
                /\ voronoiCells[c].sector_code = industryData[i].sector_code

(***************************************************************************)
(* IndustryVoronoiDiagram: the enterprises of the clustering result with   *)
(* the colour of their sector (loadVoronoiData).                           *)
(***************************************************************************)
colorPalette ==
    <<"#FF6B6B", "#4ECDC4", "#45B7D1", "#96CEB4", "#FECA57", "#FF9FF3",
      "#54A0FF", "#5F27CD", "#00C887", "#FF7675", "#FDCB6E", "#E17055",
      "#A29BFE", "#6C5CE7", "#FD79A8", "#FDCB6E", "#55A3FF", "#00B894",
      "#E84393", "#00CEC9", "#FDCB6E", "#FF7675", "#74B9FF", "#A29BFE",
      "#FF6B9D", "#C44569", "#F8B500", "#3B3B98", "#1B9CFC", "#55A3FF",
      "#FF5722", "#4CAF50", "#2196F3", "#9C27B0", "#FF9800", "#795548",
      "#607D8B", "#E91E63", "#009688", "#FF5722", "#8BC34A", "#CDDC39",
      "#FFC107", "#FF9800", "#F44336", "#3F51B5", "#2196F3", "#00BCD4">>

\* isNaN(v) of a value that need not be a number: undefined is coerced to NaN, null to 0
IsNaNCoerced(v) == v.k \in {"nan", "undefined"}

\* the guard "only include enterprises with valid coordinates"
DiagramHasCoordinates(e) ==
    /\ e.pca2_x # Undefined /\ e.pca2_y # Undefined
    /\ ~IsNaNCoerced(e.pca2_x) /\ ~IsNaNCoerced(e.pca2_y)

\* the body of the inner forEach on acc = [colorMap (sector names in the order
\* of their colorIndex), enterprises]
AddDiagramEnterprise(acc, e) ==
    LET sectorName == SectorNameOf(e)
        colorMap == IF IndexOf(acc.colorMap, sectorName) >= 0 THEN acc.colorMap
                    ELSE Append(acc.colorMap, sectorName)
        colorIndex == IndexOf(colorMap, sectorName)
        color == colorPalette[(colorIndex % Len(colorPalette)) + 1]
    IN [colorMap |-> colorMap,
        enterprises |->
            IF DiagramHasCoordinates(e)
            THEN Append(acc.enterprises,
                        [x |-> ParseFloat(e.pca2_x),
                         y |-> ParseFloat(e.pca2_y),
                         sector_name |-> sectorName,
                         sector_unique_id |-> SectorCodeOf(e),
                         color |-> color])
            ELSE acc.enterprises]

RECURSIVE CollectEnterprises(_, _)
\* the two forEach loops over the enterprises, from the left
CollectEnterprises(acc, enterprises) ==
    IF enterprises = <<>> THEN acc
    ELSE CollectEnterprises(AddDiagramEnterprise(acc, Head(enterprises)), Tail(enterprises))

\* loadVoronoiData: runs to its end without awaiting anything
LoadVoronoiData ==
    /\ diagramPc = "effect"
    /\ LET enterprises ==
               CollectEnterprises([colorMap |-> <<>>, enterprises |-> <<>>],
                                  clusterResults.enterprises).enterprises
       IN IF ~clusterResults.present
          THEN /\ diagramError' = "Loading error: No clustering results available. Please run clustering analysis first."
               /\ UNCHANGED voronoiData
          ELSE IF Len(enterprises) > 0
          THEN /\ voronoiData' = enterprises
               /\ diagramError' = NoError
          ELSE /\ diagramError' = "Loading error: No valid enterprise data found for Voronoi diagram"
               /\ UNCHANGED voronoiData
    /\ diagramLoading' = FALSE
    /\ diagramPc' = "done"
    /\ UNCHANGED <<clusterResults, tabVars, previousRun, restVars>>

(***************************************************************************)
(* SpecColor: both views over a clustering result; the store then delivers *)
(* the same records in another order and both effects run again.           *)
(***************************************************************************)
\* the enterprises of the colour runs
ColorCoordShapes ==
    {<<Num(0), Num(0)>>, <<Num(2 * Unit), Num(0)>>, <<Undefined, Num(0)>>,
     <<PosInf, Num(0)>>}
ColorEnterprises ==
    {e \in Enterprises : <<e.pca2_x, e.pca2_y>> \in ColorCoordShapes}
ColorEnterpriseLists == UNION {[1..n -> ColorEnterprises] : n \in 0..MaxRecords}

\* the lists that hold the records of list in another order
Reorderings(list) ==
    LET n == Len(list)
        perms == {f \in [1..n -> 1..n] : \A i, j \in 1..n : f[i] = f[j] => i = j}
    IN {[i \in 1..n |-> list[f[i]]] : f \in perms} \ {list}

\* the sectors of the cells and of the enterprises shown, with their colours
TabColors == {<<voronoiCells[c].labels, voronoiCells[c].color>> : c \in 1..Len(voronoiCells)}
DiagramColors == {<<voronoiData[i].sector_name, voronoiData[i].color>> : i \in 1..Len(voronoiData)}

\* the store's result changes to a reordering of its records: both effects are
\* scheduled again (clusterResults is a dependency of both)
ResultsReordered ==
    /\ clusterResults.present
    /\ pc = "done" /\ diagramPc = "done"
    /\ ~previousRun.recorded
    /\ \E list \in Reorderings(clusterResults.enterprises) :
           clusterResults' = Results(list)
    /\ previousRun' = [recorded |-> TRUE, tab |-> TabColors, diagram |-> DiagramColors]
    /\ pc' = "effect"
    /\ diagramPc' = "effect"
    /\ UNCHANGED <<industryData, voronoiCells, loading, error,
                   voronoiData, diagramLoading, diagramError, restVars>>

InitColor ==
    /\ clusterResults \in {Results(es) : es \in ColorEnterpriseLists}
    /\ Mounted

NextColor == LoadIndustryData \/ FetchNotOk \/ LoadVoronoiData \/ ResultsReordered

SpecColor == InitColor /\ [][NextColor]_vars

\* both views show the reordered result
SecondRunShown == previousRun.recorded /\ pc = "done" /\ diagramPc = "done"

\* C8: after a run on the same records in another order, every sector has the
\* colour it had in the run before, in the cells of the tab and in the diagram
C8_ColorStability ==
    SecondRunShown =>
        /\ \A now \in TabColors : \A before \in previousRun.tab :
               now[1] = before[1] => now[2] = before[2]
        /\ \A now \in DiagramColors : \A before \in previousRun.diagram :
               now[1] = before[1] => now[2] = before[2]

(***************************************************************************)
(* ClusteringPage: InteractiveZoomSpaceWrapper turns the clustering result *)
(* into the points of the zoom space.                                      *)
(***************************************************************************)
\* a || b for numbers: undefined, null, NaN and 0 are falsy
OrElse(a, b) ==
    IF a.k \in {"undefined", "null", "nan"} \/ (a.k = "num" /\ a.v = 0) THEN b ELSE a
\* a ?? b
Nullish(a, b) == IF a.k \in {"undefined", "null"} THEN b ELSE a
\* Number(v) of a number or undefined
ToNumber(v) == IF v.k = "undefined" THEN NaN ELSE IF v.k = "null" THEN Num(0) ELSE v

\* the size given to every point
fixedSize == 200

\* finalX and finalY: pca2_x/pca2_y, else emb_x/emb_y, else 0
FinalCoordinates(enterprise) ==
    IF enterprise.pca2_x # Undefined /\ enterprise.pca2_y # Undefined
    THEN <<enterprise.pca2_x, enterprise.pca2_y>>
    ELSE IF enterprise.emb_x # Undefined /\ enterprise.emb_y # Undefined
    THEN <<enterprise.emb_x, enterprise.emb_y>>
    ELSE <<Num(0), Num(0)>>

\* finalX and finalY are neither null nor undefined nor NaN
hasValidCoords(final) ==
    /\ final[1] # Null /\ final[1] # Undefined
    /\ final[2] # Null /\ final[2] # Undefined
    /\ ~IsNaNCoerced(final[1]) /\ ~IsNaNCoerced(final[2])

\* z = 30/100 * (s_DT_TTM + s_TTS + s_VCSH) + 0.1 * s_EMPL
calculatedZ(enterprise) ==
    LET s_DT_TTM == OrElse(enterprise.s_DT_TTM, Num(0))
        s_TTS == OrElse(enterprise.s_TTS, Num(0))
        s_VCSH == OrElse(enterprise.s_VCSH, Num(0))
        s_EMPL == OrElse(enterprise.s_EMPL,
                         OrElse(enterprise.empl_qtty,
                                OrElse(enterprise.employees, Num(0))))
    IN Add(Mul(Add(Add(s_DT_TTM, s_TTS), s_VCSH), Num(300)), Mul(s_EMPL, Num(100)))

\* the point pushed for an enterprise with valid coordinates
ZoomPoint(enterprise, pointIndex) ==
    LET final == FinalCoordinates(enterprise)
        clusterLabel == Nullish(enterprise.cluster,
                                Nullish(enterprise.Label,
                                        Nullish(enterprise.cluster_label, Num(0))))
    IN [x |-> final[1],
        y |-> final[2],
        z |-> calculatedZ(enterprise),
        cluster |-> ToNumber(clusterLabel),
        size |-> Num(fixedSize),
        index |-> pointIndex,
        info |-> [employees |-> OrElse(enterprise.empl_qtty,
                                       OrElse(enterprise.employees, Num(0))),
                  revenue |-> OrElse(enterprise.s_DT_TTM, Num(0)),
                  assets |-> OrElse(enterprise.s_VCSH, Num(0)),
                  cluster_id |-> clusterLabel]]

RECURSIVE TransformEnterprises(_, _)
\* the forEach over the enterprises: pointIndex counts the points pushed so far
TransformEnterprises(points, enterprises) ==
    IF enterprises = <<>> THEN points
    ELSE LET enterprise == Head(enterprises)
         IN TransformEnterprises(
                IF hasValidCoords(FinalCoordinates(enterprise))
                THEN Append(points, ZoomPoint(enterprise, Len(points)))
                ELSE points,
                Tail(enterprises))

\* the metrics of an enterprise: absent, zero, small, in range, large, NaN, infinite
MetricShapes ==
    {[s_DT_TTM |-> Undefined, s_TTS |-> Undefined, s_VCSH |-> Undefined,
      s_EMPL |-> Undefined, empl_qtty |-> Undefined, employees |-> Undefined],
     [s_DT_TTM |-> Num(0), s_TTS |-> Num(0), s_VCSH |-> Num(0),
      s_EMPL |-> Num(0), empl_qtty |-> Num(0), employees |-> Num(0)],
     [s_DT_TTM |-> Num(Unit), s_TTS |-> Num(Unit), s_VCSH |-> Num(Unit),
      s_EMPL |-> Undefined, empl_qtty |-> Num(5 * Unit), employees |-> Undefined],
     [s_DT_TTM |-> Num(10 * Unit), s_TTS |-> Num(10 * Unit), s_VCSH |-> Num(10 * Unit),
      s_EMPL |-> Num(20 * Unit), empl_qtty |-> Num(3 * Unit), employees |-> Undefined],
     [s_DT_TTM |-> Num(100 * Unit), s_TTS |-> Num(100 * Unit), s_VCSH |-> Num(100 * Unit),
      s_EMPL |-> Num(100 * Unit), empl_qtty |-> Undefined, employees |-> Num(7 * Unit)],
     [s_DT_TTM |-> NaN, s_TTS |-> Null, s_VCSH |-> Num(0),
      s_EMPL |-> Undefined, empl_qtty |-> Undefined, employees |-> Undefined],
     [s_DT_TTM |-> PosInf, s_TTS |-> Num(Unit), s_VCSH |-> Num(Unit),
      s_EMPL |-> Num(Unit), empl_qtty |-> Undefined, employees |-> Undefined]}
\* the coordinates and the cluster label of an enterprise
PlacementShapes ==
    {[pca2_x |-> Num(Unit), pca2_y |-> Num(2 * Unit), emb_x |-> Undefined,
      emb_y |-> Undefined, cluster |-> Num(Unit)],
     [pca2_x |-> Undefined, pca2_y |-> Undefined, emb_x |-> Num(0),
      emb_y |-> Num(Unit), cluster |-> Num(0)],
     [pca2_x |-> Null, pca2_y |-> Num(0), emb_x |-> Num(0),
      emb_y |-> Num(0), cluster |-> Undefined]}
MetricEnterprises ==
    {[pca2_x |-> c.pca2_x, pca2_y |-> c.pca2_y, emb_x |-> c.emb_x, emb_y |-> c.emb_y,
      cluster |-> c.cluster, Label |-> Undefined, cluster_label |-> Undefined,
      s_DT_TTM |-> m.s_DT_TTM, s_TTS |-> m.s_TTS, s_VCSH |-> m.s_VCSH,
      s_EMPL |-> m.s_EMPL, empl_qtty |-> m.empl_qtty, employees |-> m.employees] :
        c \in PlacementShapes, m \in MetricShapes}
MetricEnterpriseLists == UNION {[1..n -> MetricEnterprises] : n \in 0..MaxRecords}

\* a render of InteractiveZoomSpaceWrapper: without results, or without a
\* valid point, a message is shown instead of the zoom space
InteractiveZoomSpaceWrapper ==
    /\ zoomPc = "render"
    /\ LET points == IF clusterResults.present
                     THEN TransformEnterprises(<<>>, clusterResults.enterprises)
                     ELSE <<>>
       IN /\ transformedData' = points
          /\ zoomPc' = IF Len(points) = 0 THEN "message" ELSE "shown"
    /\ UNCHANGED <<clusterResults, tabVars, diagramVars, previousRun, serverVars, raceVars, storeVars>>

InitMarker ==
    /\ clusterResults \in {NoResults} \cup {Results(es) : es \in MetricEnterpriseLists}
    /\ Mounted

NextMarker == InteractiveZoomSpaceWrapper

SpecMarker == InitMarker /\ [][NextMarker]_vars

\* C11: the marker size derived for every point, 0.3 times the three primary
\* metrics plus 0.1 times the headcount metric, is finite and lies in [5, 50]
C11_MarkerSizeBounds ==
    zoomPc = "shown" =>
        \A i \in 1..Len(transformedData) :
            /\ IsFinite(transformedData[i].z)
            /\ LessEq(Num(5 * Unit), transformedData[i].z)
            /\ LessEq(transformedData[i].z, Num(50 * Unit))

(***************************************************************************)
(* Further properties of the tessellation, checked under SpecCsv.          *)
(***************************************************************************)
\* the squared distance of two vertices, in thousandths squared
SquaredGap(v, w) == (v[1].v - w[1].v) * (v[1].v - w[1].v)
                    + (v[2].v - w[2].v) * (v[2].v - w[2].v)
\* a and b differ by at most the rounding of the vertex coordinates
Near(a, b) == Abs(a - b) <= 3 * Unit
\* the cell is the circular fallback polygon: 12 finite vertices, all at the
\* distance 0.8 from the centroid, consecutive ones equally far apart
IsCircularPolygon(cell) ==
    LET vertices == cell.vertices
        centre == <<cell.x, cell.y>>
    IN /\ Len(vertices) = 12
       /\ \A j \in 1..Len(vertices) :
              /\ IsFinite(vertices[j][1]) /\ IsFinite(vertices[j][2])
              /\ Near(SquaredGap(vertices[j], centre), 640 * Unit)
       /\ \A j, k \in 1..Len(vertices) :
              IsFinite(vertices[j][1]) /\ IsFinite(vertices[j][2])
              /\ IsFinite(vertices[k][1]) /\ IsFinite(vertices[k][2])
              => Near(SquaredGap(vertices[j], vertices[(j % Len(vertices)) + 1]),
                      SquaredGap(vertices[k], vertices[(k % Len(vertices)) + 1]))
              /\ (j # k => SquaredGap(vertices[j], vertices[k]) > 0)

\* C12: a centroid with fewer than 2 neighbours (the input has exactly two
\* valid centroids) gets the circular fallback polygon of exactly 12 evenly
\* spaced vertices at the fixed radius around it
C12_IsolatedPointFallback ==
    (Tessellated /\ Len(voronoiCells) = 2) =>
        \A c \in 1..Len(voronoiCells) : IsCircularPolygon(voronoiCells[c])

\* two centroids at different positions, both with the circular polygon
C12_Witness ==
    /\ Tessellated
    /\ Len(voronoiCells) = 2
    /\ ~NumEq(voronoiCells[1].x, voronoiCells[2].x)
    /\ Len(voronoiCells[1].vertices) = 12
    /\ Len(voronoiCells[2].vertices) = 12

(***************************************************************************)
(* SpecSpread: the component mounted without a clustering result over a    *)
(* file of up to MaxSpread labelled rows, row i at one of two positions.   *)
(***************************************************************************)
SpreadRow(i, c) ==
    CsvRow("S" \o ToString(i), [labels |-> "Retail", name_short |-> UndefStr], c)
\* the rows a file can have in line i
SpreadRowsAt(i) ==
    {SpreadRow(i, <<Num(i * Unit), Num(0)>>),
     SpreadRow(i, <<Num(2 * Unit), Num((i % 3) * Unit)>>)}
RECURSIVE SpreadRowListsOf(_)
\* the files of n rows
SpreadRowListsOf(n) ==
    IF n = 0 THEN {<<>>}
    ELSE {Append(rows, row) : rows \in SpreadRowListsOf(n - 1), row \in SpreadRowsAt(n)}
SpreadRowLists == UNION {SpreadRowListsOf(n) : n \in 0..MaxSpread}

InitSpread == InitCsv

NextSpread ==
    \/ LoadIndustryData
    \/ FetchOk
    \/ \E rows \in SpreadRowLists : CsvLoaded(rows)
    \/ RegenerateVoronoi

SpecSpread == InitSpread /\ [][NextSpread]_vars

\* the squared distance of two points, in thousandths squared
SquaredDistance(p, q) ==
    (p.emb_x.v - q.emb_x.v) * (p.emb_x.v - q.emb_x.v)
    + (p.emb_y.v - q.emb_y.v) * (p.emb_y.v - q.emb_y.v)
\* the smaller of two integers
Smaller(a, b) == IF a < b THEN a ELSE b

\* neighbours are the min(6, n-1) nearest other points of validPoints[p], in
\* ascending order of distance
IsNearestSelection(validPoints, p, neighbours) ==
    LET chosen == {neighbours[j].index : j \in 1..Len(neighbours)}
        far(idx) == SquaredDistance(validPoints[p], validPoints[idx])
    IN /\ Len(neighbours) = Smaller(6, Len(validPoints) - 1)
       /\ Cardinality(chosen) = Len(neighbours)
       /\ chosen \subseteq (1..Len(validPoints)) \ {p}
       /\ \A j \in 1..Len(neighbours) :
              /\ neighbours[j].x = validPoints[neighbours[j].index].emb_x
              /\ neighbours[j].y = validPoints[neighbours[j].index].emb_y
       /\ \A j \in 1..(Len(neighbours) - 1) :
              far(neighbours[j].index) <= far(neighbours[j + 1].index)
       /\ \A idx \in ((1..Len(validPoints)) \ {p}) \ chosen :
              \A c \in chosen : far(c) <= far(idx)

Direction(v, centre) == <<v[1].v - centre[1].v, v[2].v - centre[2].v>>
\* 0 for the directions with an angle in [0, pi), 1 for those in [pi, 2 pi)
HalfTurn(d) == IF d[2] > 0 \/ (d[2] = 0 /\ d[1] > 0) THEN 0 ELSE 1
\* the angle of direction a is strictly smaller than the angle of b
AngleLess(a, b) ==
    \/ HalfTurn(a) < HalfTurn(b)
    \/ HalfTurn(a) = HalfTurn(b) /\ a[1] * b[2] - a[2] * b[1] > 0
\* the places of the ring after which the angle goes down (Up = TRUE) or up
Turns(ring, centre, Up) ==
    {j \in 1..Len(ring) :
        LET a == Direction(ring[j], centre)
            b == Direction(ring[(j % Len(ring)) + 1], centre)
        IN IF Up THEN AngleLess(b, a) ELSE AngleLess(a, b)}
\* the ring goes once around the centre, counter-clockwise or clockwise,
\* starting at any of its vertices
InAngularOrder(ring, centre) ==
    \/ Cardinality(Turns(ring, centre, TRUE)) <= 1
    \/ Cardinality(Turns(ring, centre, FALSE)) <= 1
\* every coordinate of the polygon is a finite number
HasFiniteVertices(cell) ==
    \A j \in 1..Len(cell.vertices) :
        IsFinite(cell.vertices[j][1]) /\ IsFinite(cell.vertices[j][2])

\* C14: in every cell built from neighbours (three or more valid centroids)
\* the vertices are in angular order around the centroid and the ring is
\* closed by repeating the first vertex
C14_VertexAngularOrder ==
    (Tessellated /\ Len(voronoiCells) >= 3) =>
        \A c \in 1..Len(voronoiCells) :
            LET cell == voronoiCells[c]
                n == Len(cell.vertices)
            IN HasFiniteVertices(cell) =>
                   /\ n >= 2
                   /\ VertexEq(cell.vertices[1], cell.vertices[n])
                   /\ InAngularOrder(SubSeq(cell.vertices, 1, n - 1), <<cell.x, cell.y>>)

(***************************************************************************)
(* SpecBucket: the component mounted over a clustering result whose        *)
(* records are named, unnamed or named by the empty string.                *)
(***************************************************************************)
BucketSectorShapes ==
    {[sector_name |-> "Retail", company_sector_name |-> UndefStr,
      sector_unique_id |-> "7", company_sector_unique_id |-> UndefStr],
     [sector_name |-> "", company_sector_name |-> UndefStr,
      sector_unique_id |-> UndefStr, company_sector_unique_id |-> "3"],
     [sector_name |-> UndefStr, company_sector_name |-> UndefStr,
      sector_unique_id |-> UndefStr, company_sector_unique_id |-> UndefStr]}
BucketCoordShapes ==
    {<<Num(0), Num(0)>>, <<Num(2 * Unit), Num(2 * Unit)>>,
     <<Undefined, Num(0)>>, <<Null, Num(2 * Unit)>>}
BucketEnterprises ==
    {[sector_name |-> s.sector_name,
      company_sector_name |-> s.company_sector_name,
      sector_unique_id |-> s.sector_unique_id,
      company_sector_unique_id |-> s.company_sector_unique_id,
      pca2_x |-> c[1], pca2_y |-> c[2]] : s \in BucketSectorShapes, c \in BucketCoordShapes}
BucketEnterpriseLists == UNION {[1..n -> BucketEnterprises] : n \in 0..MaxRecords}

InitBucket ==
    /\ clusterResults \in {NoResults} \cup {Results(es) : es \in BucketEnterpriseLists}
    /\ Mounted

NextBucket == LoadIndustryData \/ FetchNotOk

SpecBucket == InitBucket /\ [][NextBucket]_vars

(***************************************************************************)
(* Further properties of the sector aggregation, checked under SpecBucket. *)
(***************************************************************************)
\* the record carries no sector name, neither its own nor its company's
IsNameless(e) ==
    e.sector_name \in {UndefStr, ""} /\ e.company_sector_name \in {UndefStr, ""}
\* the positions of the records without a sector name and with finite coordinates
NamelessValid ==
    {i \in 1..Len(clusterResults.enterprises) :
        /\ IsNameless(clusterResults.enterprises[i])
        /\ HasFiniteCoordinates(clusterResults.enterprises[i])}
\* the positions of the records without a sector name that pass the guard
NamelessGuarded ==
    {i \in 1..Len(clusterResults.enterprises) :
        /\ IsNameless(clusterResults.enterprises[i])
        /\ HasCoordinates(clusterResults.enterprises[i])}

\* C15: the records with valid coordinates and no sector name are aggregated
\* under the sector name "Unknown": its centroid exists, its member count
\* includes them and, when no other record reaches the bucket, its
\* coordinates are their mean
C15_DefaultSectorBucket ==
    (Aggregated /\ NamelessValid # {}) =>
        \E c \in 1..Len(industryData) :
            /\ industryData[c].labels = "Unknown"
            /\ \E count \in Cardinality(NamelessValid)..Len(clusterResults.enterprises) :
                   industryData[c].field_name
                       = "Unknown (" \o ToString(count) \o " doanh nghiep)"
            /\ NamelessGuarded = NamelessValid =>
                   /\ industryData[c].emb_x
                          = MeanOver([i \in NamelessValid |->
                                         clusterResults.enterprises[i].pca2_x.v],
                                     NamelessValid)
                   /\ industryData[c].emb_y
                          = MeanOver([i \in NamelessValid |->
                                         clusterResults.enterprises[i].pca2_y.v],
                                     NamelessValid)

\* two records without a sector name at different positions next to a named
\* sector, with the centroid of "Unknown" between them
C15_Witness ==
    /\ Aggregated
    /\ Cardinality(NamelessValid) = 2
    /\ NamelessGuarded = NamelessValid
    /\ Len(industryData) = 2
    /\ \E c \in 1..Len(industryData) :
           /\ industryData[c].labels = "Unknown"
           /\ industryData[c].emb_x = Num(Unit)

(***************************************************************************)
(* SpecRace: the clustering result changes while the component is mounted. *)
(* The effect has no cleanup, so a run of loadIndustryData started for an  *)
(* earlier result goes on after the effect has run again.                  *)
(***************************************************************************)
\* a record of a clustering result
RaceEnterprise(s, c) ==
    [sector_name |-> s.sector_name,
     company_sector_name |-> s.company_sector_name,
     sector_unique_id |-> s.sector_unique_id,
     company_sector_unique_id |-> s.company_sector_unique_id,
     pca2_x |-> c[1], pca2_y |-> c[2]]
\* a result with one sector (no cells of its own) and results with two
RaceResults ==
    LET retail == CHOOSE s \in SectorShapes : s.sector_name = "Retail"
        banking == CHOOSE s \in SectorShapes : s.company_sector_name = "Banking"
    IN {Results(<<RaceEnterprise(retail, <<Num(0), Num(0)>>)>>),
        Results(<<RaceEnterprise(retail, <<Num(0), Num(0)>>),
                  RaceEnterprise(banking, <<Num(2 * Unit), Num(0)>>)>>),
        Results(<<RaceEnterprise(banking, <<Num(0), Num(2 * Unit)>>),
                  RaceEnterprise(retail, <<Num(2 * Unit), Num(2 * Unit)>>),
                  RaceEnterprise(retail, <<Num(0), Num(0)>>)>>)}
\* the rows of industry_data.csv: the file does not change between two loads
RaceRows ==
    <<CsvRow("C0", [labels |-> "Retail", name_short |-> UndefStr], <<Num(0), Num(0)>>),
      CsvRow("C3", [labels |-> "Banking", name_short |-> "Bank"],
             <<Num(Unit), Num(2 * Unit)>>)>>

\* the store's results change: the effect is scheduled again and the run that
\* is awaiting goes on as a run for an earlier result
ResultsChanged ==
    /\ changes < MaxChanges
    /\ \E new \in RaceResults \cup {NoResults} :
           /\ new # clusterResults
           /\ clusterResults' = new
    /\ changes' = changes + 1
    /\ inFlight' = IF pc = "fetch" THEN [inFlight EXCEPT !.fetch = @ + 1]
                   ELSE IF pc = "text" THEN [inFlight EXCEPT !.text = @ + 1]
                   ELSE inFlight
    /\ pc' = "effect"
    /\ UNCHANGED <<industryData, voronoiCells, loading, error, diagramVars,
                   previousRun, serverVars, pageVars, storeVars>>

\* fetch of a run for an earlier result resolves with response.ok false
EarlierFetchNotOk ==
    /\ inFlight.fetch > 0
    /\ inFlight' = [inFlight EXCEPT !.fetch = @ - 1]
    /\ error' = "Loading error: No data available. Please run clustering analysis first or ensure industry_data.csv exists."
    /\ loading' = FALSE
    /\ UNCHANGED <<clusterResults, industryData, voronoiCells, pc, diagramVars,
                   previousRun, serverVars, pageVars, changes, storeVars>>

\* fetch of a run for an earlier result resolves with response.ok true
EarlierFetchOk ==
    /\ inFlight.fetch > 0
    /\ inFlight' = [fetch |-> inFlight.fetch - 1, text |-> inFlight.text + 1]
    /\ UNCHANGED <<clusterResults, tabVars, diagramVars, previousRun, serverVars, pageVars, changes, storeVars>>

\* response.text() resolves and Papa.parse calls complete with the rows, in
\* the run for the latest result (latest) or in a run for an earlier one
ParseCompleted(rows, latest) ==
    /\ IF latest
       THEN pc = "text" /\ pc' = "done" /\ UNCHANGED inFlight
       ELSE /\ inFlight.text > 0
            /\ inFlight' = [inFlight EXCEPT !.text = @ - 1]
            /\ UNCHANGED pc
    /\ LET validData == SelectSeq(rows, IsValidRow)
           cells == computeVoronoi(validData)
       IN IF rows = <<>>
          THEN /\ error' = "Loading error: CSV file is empty. Please run clustering analysis first."
               /\ UNCHANGED <<industryData, voronoiCells>>
          ELSE IF Len(validData) = 0
          THEN /\ error' = "Data processing error: No valid data points found. Please run clustering analysis first."
               /\ UNCHANGED <<industryData, voronoiCells>>
          ELSE IF Len(cells) = 0
          THEN /\ error' = "Data processing error: Failed to generate Voronoi cells"
               /\ industryData' = validData
               /\ UNCHANGED voronoiCells
          ELSE /\ industryData' = validData
               /\ voronoiCells' = cells
               /\ UNCHANGED error
    /\ loading' = FALSE
    /\ UNCHANGED <<clusterResults, diagramVars, previousRun, serverVars, pageVars, changes, storeVars>>

InitRace ==
    /\ clusterResults \in RaceResults \cup {NoResults}
    /\ Mounted

NextRace ==
    \/ LoadIndustryData
    \/ FetchNotOk
    \/ FetchOk
    \/ \E latest \in BOOLEAN : ParseCompleted(RaceRows, latest)
    \/ ResultsChanged
    \/ EarlierFetchNotOk
    \/ EarlierFetchOk

SpecRace == InitRace /\ [][NextRace]_vars

\* the latest clustering result yields cells of its own
LatestYieldsCells ==
    /\ clusterResults.present
    /\ Len(computeVoronoi(IndustryPoints(clusterResults.enterprises))) > 0

\* C16: once the load for the latest clustering result has finished, the
\* centroids and the cells are the ones computed from that result, whether
\* or not a load started for an earlier result completes afterwards
C16_RecomputedFromLatestResult ==
    (pc = "done" /\ ~loading /\ LatestYieldsCells) =>
        /\ industryData = IndustryPoints(clusterResults.enterprises)
        /\ voronoiCells = computeVoronoi(industryData)

(***************************************************************************)
(* useClusteringStore: runClustering and the other actions of the store.   *)
(* A call of runClustering is followed through its awaits: run.pc is       *)
(* "idle" (no call in progress), "file" (awaiting fileToUse.text()), "api" *)
(* (awaiting clusteringApi.runClustering), "labels", "projection" and      *)
(* "metric" (awaiting getLabels, getProjectionImages, getMetricImages).    *)
(***************************************************************************)
\* the fields a call of runClustering writes, as one record
StoreState ==
    [isRunning |-> isRunning, progress |-> progress, logs |-> logs,
     results |-> results, storeError |-> storeError, run |-> run]
\* the record written back to the store
Commit(st) ==
    /\ isRunning' = st.isRunning
    /\ progress' = st.progress
    /\ logs' = st.logs
    /\ results' = st.results
    /\ storeError' = st.storeError
    /\ run' = st.run

\* set({progress: p}) in a call of runClustering
SetProgress(st, p) ==
    [st EXCEPT !.progress = p, !.run = [@ EXCEPT !.trail = Append(@, p)]]

\* get().addLog(entry), without the timestamp
addLog(st, type, message) ==
    [st EXCEPT !.logs = Append(@, [type |-> type, message |-> message])]

\* the parameter validation, had it looked at lambda and level_value only
ValidationErrorIgnoringK(params) ==
    IF \/ params.lambda.k \in {"undefined", "null", "nan"}
       \/ (params.lambda.k = "num" /\ params.lambda.v = 0)
       \/ params.level_value.kind = "undefined"
    THEN "Missing required parameters: lambda, k, and level_value"
    ELSE IF ~Less(Num(0), params.lambda)
    THEN "Lambda must be greater than 0"
    ELSE NoError

\* the message of the Error the parameter validation throws, NoError if none
ValidationError(params) ==
    IF \/ params.lambda.k \in {"undefined", "null", "nan"}
       \/ (params.lambda.k = "num" /\ params.lambda.v = 0)
       \/ params.k.kind = "undefined"
       \/ (params.k.kind = "number" /\ params.k.v = 0)
       \/ params.level_value.kind = "undefined"
    THEN "Missing required parameters: lambda, k, and level_value"
    ELSE IF ~Less(Num(0), params.lambda)
    THEN "Lambda must be greater than 0"
    ELSE IF params.k.kind = "number" /\ params.k.v < 2
    THEN "k must be >= 2"
    ELSE IF params.k.kind = "list" /\ \E i \in 1..Len(params.k.list) : params.k.list[i] < 2
    THEN "All k values must be >= 2"
    ELSE NoError

\* the catch block, had it left isRunning as it was
CatchStillRunning(st, errorMessage) ==
    LET logged == addLog(st, "error", errorMessage)
    IN [logged EXCEPT !.storeError = errorMessage,
                      !.progress = 0,
                      !.run = [@ EXCEPT !.pc = "idle", !.outcome = "rejected",
                                        !.reason = errorMessage,
                                        !.trail = Append(@, 0)]]

\* the catch block: the message is logged and stored, the promise rejects
Catch(st, errorMessage) ==
    LET logged == addLog(st, "error", errorMessage)
    IN [logged EXCEPT !.storeError = errorMessage,
                      !.isRunning = FALSE,
                      !.progress = 0,
                      !.run = [@ EXCEPT !.pc = "idle", !.outcome = "rejected",
                                        !.reason = errorMessage,
                                        !.trail = Append(@, 0)]]

\* Array.from(new Set(finalDataPoints.map(d => d.cluster).filter(Boolean)))
ClustersOf(labels) == {labels[i] : i \in 1..Len(labels)} \ {0}

\* the end of the try block: progress 100, the results are stored
Finish(st, projectionImages, metricImages) ==
    LET done == addLog(SetProgress(st, 100), "success",
                       "Clustering completed successfully!")
    IN [done EXCEPT !.results = [isNull |-> FALSE,
                                 dataPoints |-> st.run.labels,
                                 clusterResult |-> st.run.response,
                                 clusters |-> ClustersOf(st.run.labels),
                                 projectionImages |-> projectionImages,
                                 metricImages |-> metricImages],
                    !.isRunning = FALSE,
                    !.progress = 100,
                    !.run = [@ EXCEPT !.pc = "idle", !.outcome = "resolved",
                                      !.trail = Append(@, 100)]]

\* from "Get projection and metric images" on, after the projection images
LoadMetricImages(st, projectionImages) ==
    IF st.run.response.metric_plots > 0
    THEN [st EXCEPT !.run = [@ EXCEPT !.pc = "metric", !.images = projectionImages]]
    ELSE Finish(st, projectionImages, 0)

\* from "Get projection and metric images" on
LoadProjectionImages(st) ==
    IF st.run.response.projection_plots > 0
    THEN [st EXCEPT !.run = [@ EXCEPT !.pc = "projection"]]
    ELSE LoadMetricImages(st, 0)

\* from progress 70 on: the response of the API is processed
ProcessResult(st, response) ==
    LET s70 == addLog(SetProgress(st, 70), "success",
                      "Clustering API completed successfully")
        s80 == addLog(SetProgress(s70, 80), "info",
                      "Processing clustering results...")
        held == [s80 EXCEPT !.run = [@ EXCEPT !.response = response]]
    IN IF response.format = "null"
       THEN Catch(s80, "Cannot read properties of null (reading 'companies')")
       ELSE IF response.format \in {"companies", "legacy"}
       THEN LoadProjectionImages([held EXCEPT !.run = [@ EXCEPT !.labels = response.labels]])
       ELSE IF response.labels_csv
       THEN [held EXCEPT !.run = [@ EXCEPT !.pc = "labels"]]
       ELSE LoadProjectionImages([held EXCEPT !.run = [@ EXCEPT !.labels = <<>>]])

\* from "Step 2: Call clustering API" to the await of the call
CallApi(st, infoFileBase64) ==
    LET s50 == addLog(SetProgress(st, 50), "info", "Calling clustering API...")
    IN [s50 EXCEPT !.run = [@ EXCEPT !.pc = "api", !.apiCalled = TRUE,
                                     !.requestBody =
                                         RequestBody(st.run.parameters, infoFileBase64)]]

\* the parameters a form can leave in the store: the initial ones and the
\* ones with one field changed
ParameterShapes ==
    LET initial == InitialParameters
    IN {initial}
       \cup {[initial EXCEPT !.lambda = l] : l \in {Undefined, Num(0), Num(0 - Unit)}}
       \cup {[initial EXCEPT !.k = k] :
                k \in {NumberK(0), NumberK(1), ListK(<<2, 3>>),
                       ListK(<<3, 1>>)}}
       \cup {[initial EXCEPT !.level_value = NoLevelValue]}
Endpoints == {"", "https://api.example.com"}
\* what POST /cluster/run can answer: companies, the legacy format, a path to
\* the labels, nothing of these, and the JSON value null
Responses ==
    {[format |-> "companies", labels |-> <<1, 0>>, labels_csv |-> FALSE,
      projection_plots |-> 0, metric_plots |-> 0],
     [format |-> "legacy", labels |-> <<0, 1, 1>>, labels_csv |-> FALSE,
      projection_plots |-> 2, metric_plots |-> 1],
     [format |-> "none", labels |-> <<>>, labels_csv |-> TRUE,
      projection_plots |-> 1, metric_plots |-> 0],
     [format |-> "none", labels |-> <<>>, labels_csv |-> FALSE,
      projection_plots |-> 0, metric_plots |-> 1],
     [format |-> "null", labels |-> <<>>, labels_csv |-> FALSE,
      projection_plots |-> 0, metric_plots |-> 0]}
\* the messages of the errors clusteringApi.runClustering rejects with, and
\* the message for a rejection that is not an Error
ApiFailures == {"HTTP error! status: 500, body: ", "Unknown error occurred"}

\* throw new Error(...), had it been thrown inside the try block
ThrowCaught(st, errorMessage) ==
    LET logged == addLog(st, "error", errorMessage)
    IN [logged EXCEPT !.storeError = errorMessage, !.isRunning = FALSE, !.progress = 0,
                      !.run = [NoCall EXCEPT !.call = 1 - st.run.call,
                                             !.outcome = "rejected",
                                             !.reason = errorMessage]]

\* throw new Error(...) before the try block: the promise rejects and the
\* store is not written
Throw(st, errorMessage) ==
    [st EXCEPT !.run = [NoCall EXCEPT !.call = 1 - st.run.call, !.outcome = "rejected",
                                      !.reason = errorMessage]]

\* the first set(...) of the try block, had it kept the results
StartedKeepingResults(st, params) ==
    [st EXCEPT !.isRunning = TRUE, !.progress = 0, !.logs = <<>>,
               !.storeError = NoError,
               !.run = [NoCall EXCEPT !.call = 1 - st.run.call, !.outcome = "pending",
                                      !.parameters = params, !.trail = <<0>>]]

\* the first set(...) of the try block
Started(st, params) ==
    [st EXCEPT !.isRunning = TRUE, !.progress = 0, !.logs = <<>>,
               !.results = NullResults, !.storeError = NoError,
               !.run = [NoCall EXCEPT !.call = 1 - st.run.call, !.outcome = "pending",
                                      !.parameters = params, !.trail = <<0>>]]

\* runClustering(infoFile), up to its first await or to its end; file tells
\* whether the argument is given
runClustering(st, file) ==
    IF apiConfig.endpoint = ""
    THEN Throw(st, "API endpoint not configured")
    ELSE LET started == Started(st, parameters)
             s0 == addLog(started, "info", "Starting clustering process...")
             s20 == addLog(SetProgress(s0, 20), "info",
                           "Validating parameters...")
         IN IF ValidationError(parameters) # NoError
            THEN Catch(s20, ValidationError(parameters))
            ELSE IF file \/ infoFile
            THEN [addLog(s20, "info", "Processing info CSV file...")
                     EXCEPT !.run = [@ EXCEPT !.pc = "file"]]
            ELSE CallApi(s20, UndefStr)

\* a call of runClustering(infoFile), calls being made one at a time
RunClustering(file) ==
    /\ run.pc = "idle"
    /\ Commit(runClustering(StoreState, file))
    /\ UNCHANGED <<clusterResults, tabVars, diagramVars, previousRun, serverVars, pageVars,
                   raceVars, settingVars, earlier>>

\* what can become of the info file: text() resolves with some content or
\* with none, text() rejects, btoa throws (content outside Latin-1)
FileOutcomes == {"content", "empty", "unreadable", "unencodable"}

\* the inner try/catch, had its catch been the outer one
ProcessInfoFileFatal(st, outcome) ==
    LET read == [st EXCEPT !.run = [@ EXCEPT !.fileRead = outcome]]
    IN IF outcome \in {"unreadable", "unencodable"}
       THEN Catch(read, "Failed to process info CSV file")
       ELSE CallApi(addLog(read, "success", "Info CSV file processed successfully"),
                    IF outcome = "content" THEN "aGk=" ELSE "")

\* the inner try/catch around text() and btoa, and the call of the API
ProcessInfoFile(st, outcome) ==
    LET read == [st EXCEPT !.run = [@ EXCEPT !.fileRead = outcome]]
    IN IF outcome \in {"unreadable", "unencodable"}
       THEN CallApi(addLog(read, "error", "Failed to process info CSV file"), UndefStr)
       ELSE CallApi(addLog(read, "success", "Info CSV file processed successfully"),
                    IF outcome = "content" THEN "aGk=" ELSE "")

\* fileToUse.text() settles and the call goes on to the API
FileRead(outcome) ==
    /\ run.pc = "file"
    /\ Commit(ProcessInfoFile(StoreState, outcome))
    /\ UNCHANGED <<clusterResults, tabVars, diagramVars, previousRun, serverVars, pageVars,
                   raceVars, settingVars, earlier>>

\* clusteringApi.runClustering resolves with the response
ApiResolved(response) ==
    /\ run.pc = "api"
    /\ Commit(ProcessResult(StoreState, response))
    /\ UNCHANGED <<clusterResults, tabVars, diagramVars, previousRun, serverVars, pageVars,
                   raceVars, settingVars, earlier>>

\* clusteringApi.runClustering rejects
ApiRejected(errorMessage) ==
    /\ run.pc = "api"
    /\ Commit(Catch(StoreState, errorMessage))
    /\ UNCHANGED <<clusterResults, tabVars, diagramVars, previousRun, serverVars, pageVars,
                   raceVars, settingVars, earlier>>

\* clusteringApi.getLabels resolves with the labels, or rejects (ok false): the
\* rejection is caught on the spot and the labels are []
LabelsLoaded(ok, labels) ==
    /\ run.pc = "labels"
    /\ LET found == IF ok THEN labels ELSE <<>>
           logged == IF ok
                     THEN addLog(StoreState, "success",
                                 "Loaded " \o ToString(Len(labels)) \o " cluster labels")
                     ELSE addLog(StoreState, "error", "Failed to load cluster labels")
       IN Commit(LoadProjectionImages([logged EXCEPT !.run = [@ EXCEPT !.labels = found]]))
    /\ UNCHANGED <<clusterResults, tabVars, diagramVars, previousRun, serverVars, pageVars,
                   raceVars, settingVars, earlier>>

\* clusteringApi.getProjectionImages resolves with the images it could fetch
ProjectionImagesLoaded(count) ==
    /\ run.pc = "projection"
    /\ count <= run.response.projection_plots
    /\ Commit(LoadMetricImages(
                  addLog(StoreState, "success",
                         "Loaded " \o ToString(count) \o " projection images"),
                  count))
    /\ UNCHANGED <<clusterResults, tabVars, diagramVars, previousRun, serverVars, pageVars,
                   raceVars, settingVars, earlier>>

\* clusteringApi.getMetricImages resolves with the images it could fetch
MetricImagesLoaded(count) ==
    /\ run.pc = "metric"
    /\ count <= run.response.metric_plots
    /\ Commit(Finish(addLog(StoreState, "success",
                            "Loaded " \o ToString(count) \o " metric images"),
                     run.images, count))
    /\ UNCHANGED <<clusterResults, tabVars, diagramVars, previousRun, serverVars, pageVars,
                   raceVars, settingVars, earlier>>

\* updateParameters(params)
updateParameters(params) ==
    /\ parameters' = params
    /\ UNCHANGED <<clusterResults, tabVars, diagramVars, previousRun, serverVars, pageVars,
                   raceVars, apiConfig, infoFile, outcomeVars, run, earlier>>

\* updateApiConfig({endpoint})
updateApiConfig(endpoint) ==
    /\ apiConfig' = [apiConfig EXCEPT !.endpoint = endpoint]
    /\ UNCHANGED <<clusterResults, tabVars, diagramVars, previousRun, serverVars, pageVars,
                   raceVars, parameters, infoFile, outcomeVars, run, earlier>>

\* setInfoFile(file)
setInfoFile(file) ==
    /\ infoFile' = file
    /\ UNCHANGED <<clusterResults, tabVars, diagramVars, previousRun, serverVars, pageVars,
                   raceVars, parameters, apiConfig, outcomeVars, run, earlier>>

\* clearResults()
clearResults ==
    /\ results' = NullResults
    /\ storeError' = NoError
    /\ logs' = <<>>
    /\ progress' = 0
    /\ isRunning' = FALSE
    /\ UNCHANGED <<clusterResults, tabVars, diagramVars, previousRun, serverVars, pageVars,
                   raceVars, settingVars, run, earlier>>

\* clearError()
clearError ==
    /\ storeError' = NoError
    /\ UNCHANGED <<clusterResults, tabVars, diagramVars, previousRun, serverVars, pageVars,
                   raceVars, settingVars, isRunning, progress, logs, results, run, earlier>>

(***************************************************************************)
(* SpecStore: the store in use, with runClustering called one at a time.   *)
(***************************************************************************)
InitStore ==
    /\ clusterResults = NoResults
    /\ Mounted

NextStore ==
    \/ \E file \in BOOLEAN : RunClustering(file)
    \/ \E outcome \in FileOutcomes : FileRead(outcome)
    \/ \E response \in Responses : ApiResolved(response)
    \/ \E errorMessage \in ApiFailures : ApiRejected(errorMessage)
    \/ \E ok \in BOOLEAN : LabelsLoaded(ok, <<2, 2>>)
    \/ \E count \in 0..2 : ProjectionImagesLoaded(count)
    \/ \E count \in 0..1 : MetricImagesLoaded(count)
    \/ \E params \in ParameterShapes : updateParameters(params)
    \/ \E endpoint \in Endpoints : updateApiConfig(endpoint)
    \/ \E file \in BOOLEAN : setInfoFile(file)
    \/ clearResults
    \/ clearError

SpecStore == InitStore /\ [][NextStore]_vars

(***************************************************************************)
(* C18: with the calls of runClustering made one at a time, in every       *)
(* reachable state results # null implies error = null, progress = 100     *)
(* and isRunning = false; and the step in which a run that got past its    *)
(* start fails leaves error = the failure message, results = null,         *)
(* progress = 0 and isRunning = false.                                     *)
(***************************************************************************)
ResultsImplySuccess ==
    results # NullResults =>
        /\ storeError = NoError
        /\ progress = 100
        /\ ~isRunning

FailsPastStart ==
    /\ run'.outcome = "rejected"
    /\ \/ run.outcome = "pending"
       \/ (run.pc = "idle" /\ apiConfig.endpoint # "" /\ run'.call # run.call)

FailureLeavesErrorState ==
    FailsPastStart =>
        /\ storeError' = run'.reason
        /\ storeError' # NoError
        /\ results' = NullResults
        /\ progress' = 0
        /\ ~isRunning'

C18_RunOutcomeInvariant ==
    /\ []ResultsImplySuccess
    /\ [][FailureLeavesErrorState]_vars

\* a run that had called the API has failed: the error state is there
C18_Witness ==
    /\ run.outcome = "rejected"
    /\ run.apiCalled
    /\ storeError = run.reason
    /\ results = NullResults
    /\ progress = 0
    /\ ~isRunning

(***************************************************************************)
(* C19: runClustering called while apiConfig.endpoint is empty rejects     *)
(* with "API endpoint not configured" and leaves isRunning, progress,      *)
(* logs, results and error (and the other fields of the store) as they     *)
(* were.                                                                   *)
(***************************************************************************)
CalledUnconfigured ==
    /\ run.pc = "idle"
    /\ run'.call # run.call
    /\ apiConfig.endpoint = ""

RejectsLeavingStore ==
    CalledUnconfigured =>
        /\ run'.pc = "idle"
        /\ run'.outcome = "rejected"
        /\ run'.reason = "API endpoint not configured"
        /\ ~run'.apiCalled
        /\ UNCHANGED <<isRunning, progress, logs, results, storeError>>
        /\ UNCHANGED <<parameters, apiConfig, infoFile>>

C19_UnconfiguredEndpoint == [][RejectsLeavingStore]_vars

\* the call was rejected for the endpoint while the store held the results
\* and the log of an earlier, successful run
C19_Witness ==
    /\ run.outcome = "rejected"
    /\ run.reason = "API endpoint not configured"
    /\ apiConfig.endpoint = ""
    /\ results # NullResults
    /\ logs # <<>>
    /\ progress = 100
    /\ storeError = NoError

(***************************************************************************)
(* C20: runClustering never calls the clustering API when lambda is        *)
(* missing or <= 0, when k is a number below 2, when k is a list holding a *)
(* value below 2, or when level_value is missing; once the endpoint is     *)
(* configured, in each such case the run ends in the error state (error    *)
(* set, isRunning = false, progress = 0) with an error log entry.          *)
(***************************************************************************)
LambdaRejected(params) ==
    \/ params.lambda.k \in {"undefined", "null"}
    \/ (params.lambda.k = "num" /\ params.lambda.v <= 0)

KRejected(params) ==
    \/ (params.k.kind = "number" /\ params.k.v < 2)
    \/ (params.k.kind = "list" /\ \E i \in DOMAIN params.k.list : params.k.list[i] < 2)

LevelValueRejected(params) == params.level_value.kind = "undefined"

Rejected(params) ==
    LambdaRejected(params) \/ KRejected(params) \/ LevelValueRejected(params)

NeverCallsApiWhenRejected == run.apiCalled => ~Rejected(run.parameters)

EndsInErrorState ==
    /\ run'.pc = "idle"
    /\ run'.outcome = "rejected"
    /\ ~run'.apiCalled
    /\ storeError' # NoError
    /\ ~isRunning'
    /\ progress' = 0
    /\ logs' # <<>>
    /\ logs'[Len(logs')] = [type |-> "error", message |-> storeError']

CalledWithRejected ==
    /\ run.pc = "idle"
    /\ run'.call # run.call
    /\ Rejected(parameters)

C20_ValidationBeforeApiCall ==
    /\ []NeverCallsApiWhenRejected
    /\ [][CalledWithRejected /\ apiConfig.endpoint # "" => EndsInErrorState]_vars

\* the claim as stated, whatever the endpoint
C20_ValidationWhateverEndpoint ==
    /\ []NeverCallsApiWhenRejected
    /\ [][CalledWithRejected => EndsInErrorState]_vars

\* a run with a list of k holding 1 has ended in the error state
C20_Witness ==
    /\ run.outcome = "rejected"
    /\ run.parameters.k = ListK(<<3, 1>>)
    /\ ~run.apiCalled
    /\ storeError = "All k values must be >= 2"
    /\ ~isRunning
    /\ progress = 0
    /\ logs # <<>>
    /\ logs[Len(logs)] = [type |-> "error", message |-> storeError]

(***************************************************************************)
(* SpecButton: the store driven by the Run button of ClusteringPage, which *)
(* is enabled while isRunning is false.  No info file is set, and the API  *)
(* answers with companies, with null or with an error, so that a call      *)
(* awaits the API only.                                                    *)
(***************************************************************************)
\* onClick={() => runClustering()} of the button, disabled while isRunning;
\* a call that is still awaiting goes on as an earlier call
RunButtonClicked ==
    /\ ~isRunning
    /\ run.pc # "idle" => Len(earlier) < MaxEarlier
    /\ Commit(runClustering(StoreState, FALSE))
    /\ earlier' = IF run.pc = "idle" THEN earlier ELSE Append(earlier, run)
    /\ UNCHANGED <<clusterResults, tabVars, diagramVars, previousRun, serverVars, pageVars,
                   raceVars, settingVars>>

\* the store after the i-th earlier call went on to st
EarlierCommit(i, st) ==
    /\ isRunning' = st.isRunning
    /\ progress' = st.progress
    /\ logs' = st.logs
    /\ results' = st.results
    /\ storeError' = st.storeError
    /\ earlier' = IF st.run.pc = "idle"
                  THEN SubSeq(earlier, 1, i - 1) \o SubSeq(earlier, i + 1, Len(earlier))
                  ELSE [earlier EXCEPT ![i] = st.run]
    /\ UNCHANGED <<clusterResults, tabVars, diagramVars, previousRun, serverVars, pageVars,
                   raceVars, settingVars, run>>

\* clusteringApi.runClustering resolves for the i-th earlier call
EarlierApiResolved(i, response) ==
    /\ i \in DOMAIN earlier
    /\ earlier[i].pc = "api"
    /\ EarlierCommit(i, ProcessResult([StoreState EXCEPT !.run = earlier[i]], response))

\* clusteringApi.runClustering rejects for the i-th earlier call
EarlierApiRejected(i, errorMessage) ==
    /\ i \in DOMAIN earlier
    /\ earlier[i].pc = "api"
    /\ EarlierCommit(i, Catch([StoreState EXCEPT !.run = earlier[i]], errorMessage))

NextButton ==
    \/ RunButtonClicked
    \/ \E response \in {r \in Responses : /\ ~r.labels_csv
                                          /\ r.projection_plots = 0
                                          /\ r.metric_plots = 0} :
           \/ ApiResolved(response)
           \/ \E i \in 1..MaxEarlier : EarlierApiResolved(i, response)
    \/ \E errorMessage \in ApiFailures :
           \/ ApiRejected(errorMessage)
           \/ \E i \in 1..MaxEarlier : EarlierApiRejected(i, errorMessage)
    \/ \E endpoint \in Endpoints : updateApiConfig(endpoint)
    \/ clearResults
    \/ clearError

SpecButton == InitStore /\ [][NextButton]_vars

(***************************************************************************)
(* C21: with runClustering invoked only while isRunning is false, at most  *)
(* one run is in flight at any time, and isRunning is true exactly while a *)
(* run is in flight.                                                       *)
(***************************************************************************)
RunsInFlight == (IF run.pc = "idle" THEN 0 ELSE 1) + Len(earlier)

C21_SingleRunInFlight ==
    /\ RunsInFlight <= 1
    /\ isRunning <=> RunsInFlight = 1

(***************************************************************************)
(* C22: during one runClustering call, progress takes the values 0, 20,    *)
(* 50, 70, 80, 100 in this order and never decreases while the run is in   *)
(* flight; progress = 100 is reached only on the success path, and a       *)
(* failure resets progress to 0.                                           *)
(***************************************************************************)
IsPrefix(s, t) == Len(s) <= Len(t) /\ s = SubSeq(t, 1, Len(s))

\* the values a call sets progress to: a prefix of 0 .. 100 (100 is set
\* twice), with a final 0 after a failure
TrailInOrder ==
    LET steps == <<0, 20, 50, 70, 80, 100, 100>>
    IN IF run.outcome = "rejected" /\ run.trail # <<>>
       THEN /\ IsPrefix(SubSeq(run.trail, 1, Len(run.trail) - 1), SubSeq(steps, 1, 5))
            /\ run.trail[Len(run.trail)] = 0
       ELSE /\ IsPrefix(run.trail, steps)
            /\ run.outcome = "resolved" <=> run.trail = steps

StaysInFlight ==
    /\ run.pc # "idle"
    /\ run'.pc # "idle"
    /\ run'.call = run.call

C22_ProgressOrdering ==
    /\ [](TrailInOrder /\ (progress = 100 => results # NullResults))
    /\ [][StaysInFlight => progress' >= progress]_vars
    /\ [][FailsPastStart => progress' = 0]_vars

(***************************************************************************)
(* SpecStoreFair: the store with every awaited file read and HTTP call     *)
(* eventually resolving or rejecting.                                      *)
(***************************************************************************)
AwaitSettled ==
    \/ \E outcome \in FileOutcomes : FileRead(outcome)
    \/ \E response \in Responses : ApiResolved(response)
    \/ \E errorMessage \in ApiFailures : ApiRejected(errorMessage)
    \/ \E ok \in BOOLEAN : LabelsLoaded(ok, <<2, 2>>)
    \/ \E count \in 0..2 : ProjectionImagesLoaded(count)
    \/ \E count \in 0..1 : MetricImagesLoaded(count)

SpecStoreFair == SpecStore /\ WF_vars(AwaitSettled)

(***************************************************************************)
(* C23: if every awaited file read and HTTP call eventually resolves or    *)
(* rejects, every started runClustering call eventually ends, on the       *)
(* success path and on every failure path, in a state with isRunning =     *)
(* false.                                                                  *)
(***************************************************************************)
C23_RunTermination ==
    \A c \in {0, 1} :
        (run.pc # "idle" /\ run.call = c)
            ~> (run.pc = "idle" /\ run.call = c /\ ~isRunning)

\* a call whose label fetch failed has ended with the results stored
C23_Witness ==
    /\ run.pc = "idle"
    /\ run.outcome = "resolved"
    /\ run.response.labels_csv
    /\ run.labels = <<>>
    /\ \E i \in DOMAIN logs : logs[i].message = "Failed to load cluster labels"
    /\ ~isRunning

(***************************************************************************)
(* C24: when reading or base64-encoding the info CSV file fails,           *)
(* runClustering logs an error entry, goes on without the file and still   *)
(* calls the clustering API, with no info_quy_mo_b64 field in the request; *)
(* the run does not enter the error state for this reason.                 *)
(***************************************************************************)
InfoFileFails ==
    /\ run.pc = "file"
    /\ run'.call = run.call
    /\ run'.fileRead \in {"unreadable", "unencodable"}

GoesOnWithoutFile ==
    /\ logs' = Append(Append(logs, [type |-> "error",
                                    message |-> "Failed to process info CSV file"]),
                      [type |-> "info", message |-> "Calling clustering API..."])
    /\ run'.pc = "api"
    /\ run'.apiCalled
    /\ run'.outcome = "pending"
    /\ run'.requestBody.info_quy_mo_b64 = UndefStr
    /\ storeError' = storeError
    /\ isRunning' = isRunning
    /\ results' = results
    /\ progress' = 50

C24_InfoFileFailureNotFatal ==
    /\ [](run.fileRead \in {"unreadable", "unencodable"} =>
              /\ run.apiCalled
              /\ run.requestBody.info_quy_mo_b64 = UndefStr
              /\ run.reason # "Failed to process info CSV file")
    /\ [][InfoFileFails => GoesOnWithoutFile]_vars

\* a call whose info file could not be encoded has stored its results
C24_Witness ==
    /\ run.fileRead = "unencodable"
    /\ run.outcome = "resolved"
    /\ run.requestBody.info_quy_mo_b64 = UndefStr
    /\ results # NullResults
    /\ storeError = NoError

(***************************************************************************)
(* SpecLoad: the tab while the clustering result changes, with every path  *)
(* of loadIndustryData and every awaited fetch and text() settling.        *)
(***************************************************************************)
\* industry_data.csv: empty, without a valid row, with one valid row (no
\* cells) and with two
LoadFiles ==
    {<<>>,
     <<CsvRow("", [labels |-> "Retail", name_short |-> UndefStr], <<Num(0), Num(0)>>)>>,
     <<RaceRows[1]>>,
     RaceRows}

\* the error callback of Papa.parse, in the run for the latest result
\* (latest) or in a run for an earlier one
ParseFailed(latest) ==
    /\ IF latest
       THEN pc = "text" /\ pc' = "done" /\ UNCHANGED inFlight
       ELSE /\ inFlight.text > 0
            /\ inFlight' = [inFlight EXCEPT !.text = @ - 1]
            /\ UNCHANGED pc
    /\ error' = "CSV parsing error: Unknown parsing error"
    /\ loading' = FALSE
    /\ UNCHANGED <<clusterResults, industryData, voronoiCells, diagramVars,
                   previousRun, serverVars, pageVars, changes, storeVars>>

NextLoad ==
    \/ LoadIndustryData
    \/ ResultsChanged
    \/ FetchNotOk
    \/ FetchOk
    \/ EarlierFetchNotOk
    \/ EarlierFetchOk
    \/ \E latest \in BOOLEAN :
           \/ \E rows \in LoadFiles : ParseCompleted(rows, latest)
           \/ ParseFailed(latest)

\* the scheduled effect runs: the step of LoadIndustryData, seen on pc
EffectRuns == pc = "effect" /\ pc' \in {"fetch", "done"}

\* the fetch or the text() the latest run awaits settles: the steps of
\* FetchNotOk, FetchOk, ParseCompleted and ParseFailed, seen on pc
AwaitSettles ==
    \/ pc = "fetch" /\ pc' \in {"text", "done"}
    \/ pc = "text" /\ pc' = "done"

\* a fetch or a text() of a run for an earlier result settles: the steps of
\* EarlierFetchNotOk, EarlierFetchOk, ParseCompleted and ParseFailed, seen
\* on inFlight
EarlierSettles ==
    \/ /\ inFlight.fetch > 0
       /\ \E t \in {inFlight.text, inFlight.text + 1} :
              inFlight' = [fetch |-> inFlight.fetch - 1, text |-> t]
    \/ /\ inFlight.text > 0
       /\ inFlight' = [inFlight EXCEPT !.text = @ - 1]

SpecLoad ==
    /\ InitRace
    /\ [][NextLoad]_vars
    /\ WF_pc(EffectRuns)
    /\ WF_pc(AwaitSettles)
    /\ WF_inFlight(EarlierSettles)

(***************************************************************************)
(* C25: after every change of the clustering result, on every path of      *)
(* loadIndustryData the tab eventually reaches loading = false, and on     *)
(* every path that produced no cells error is non-null.                    *)
(***************************************************************************)
PathEnds ==
    \/ pc # "done" /\ pc' = "done"
    \/ inFlight'.fetch + inFlight'.text < inFlight.fetch + inFlight.text

ProducedCells ==
    /\ voronoiCells' # <<>>
    /\ voronoiCells' = computeVoronoi(industryData')

C25_LoadingTerminates ==
    /\ (pc # "done") ~> (pc = "done" /\ ~loading)
    /\ [](pc = "done" /\ voronoiCells = <<>> => error # NoError)
    /\ [][PathEnds => ~loading' /\ (ProducedCells \/ error' # NoError)]_vars

\* after a change of the result, the load has ended without cells of its own
C25_Witness ==
    /\ changes > 0
    /\ pc = "done"
    /\ inFlight.fetch + inFlight.text = 0
    /\ ~loading
    /\ error = "Data processing error: Failed to generate Voronoi cells"

(***************************************************************************)
(* The server: POST /api/clustering/run, the mock clustering route.  The   *)
(* body is the parsed JSON of the request; a string is a value of kind     *)
(* "string".                                                               *)
(***************************************************************************)
\* the message of the 400 answer, NoError if the request is accepted
RequestError(body) ==
    IF \/ ~IsNumber(body.lambda)
       \/ (~IsNaN(body.lambda) /\ ~Less(Num(0), body.lambda))
    THEN "lambda must be a positive number"
    ELSE IF \/ ~body.k_list.isArray
            \/ \E i \in DOMAIN body.k_list.items :
                   \/ ~IsNumber(body.k_list.items[i])
                   \/ Less(body.k_list.items[i], Num(2 * Unit))
    THEN "k_list must be an array of integers >= 2"
    ELSE NoError

\* the mock clustering result; best_k is k_list[Math.floor(k_list.length / 2)]
MockResult(body) ==
    LET items == body.k_list.items
    IN [lambda |-> body.lambda, k_candidates |-> items,
        best_k |-> IF items = <<>> THEN Undefined ELSE items[(Len(items) \div 2) + 1]]

\* the bodies of the requests: lambda 0.5, 0, -1, missing or a string; k_list
\* an array of 2, 3, 1, 2.5 and "3", or something else
RequestBodies ==
    LET lambdas == {Num(Unit \div 2), Num(0), Num(0 - Unit), Undefined,
                    [k |-> "string", v |-> 1]}
        ks == {Num(2 * Unit), Num(3 * Unit), Num(Unit), Num((5 * Unit) \div 2),
               [k |-> "string", v |-> 3]}
    IN {[lambda |-> l, k_list |-> [isArray |-> TRUE, items |-> items]] :
           l \in lambdas, items \in UNION {[1..n -> ks] : n \in 0..MaxKList}}
       \cup {[lambda |-> l, k_list |-> [isArray |-> FALSE, items |-> <<>>]] :
                l \in lambdas}

\* the handler up to its answer 400 or to the await of the delay
PostClusteringRun(body) ==
    /\ exchange.pc # "delay"
    /\ exchange' = IF RequestError(body) # NoError
                   THEN [NoExchange EXCEPT !.pc = "answered", !.body = body,
                                           !.status = 400,
                                           !.error = RequestError(body)]
                   ELSE [NoExchange EXCEPT !.pc = "delay", !.body = body]
    /\ UNCHANGED <<clusterResults, tabVars, diagramVars, previousRun, pageVars,
                   raceVars, storeVars>>

\* the delay has passed: res.json(result)
DelayElapsed ==
    /\ exchange.pc = "delay"
    /\ exchange' = [exchange EXCEPT !.pc = "answered", !.status = 200,
                                    !.result = MockResult(exchange.body)]
    /\ UNCHANGED <<clusterResults, tabVars, diagramVars, previousRun, pageVars,
                   raceVars, storeVars>>

InitRoute ==
    /\ clusterResults = NoResults
    /\ Mounted

NextRoute ==
    \/ \E body \in RequestBodies : PostClusteringRun(body)
    \/ DelayElapsed

SpecRoute == InitRoute /\ [][NextRoute]_vars

(***************************************************************************)
(* C26: POST /api/clustering/run answers 400 with an error unless lambda   *)
(* is a positive number and k_list is an array of integers >= 2; every     *)
(* request it accepts gets a 200 result whose k_candidates equals the      *)
(* request's k_list and whose best_k is an element of k_candidates.        *)
(***************************************************************************)
IsPositiveNumber(v) == v.k \in {"num", "inf"} /\ v.v > 0

IsIntegerFrom2(v) == v.k = "num" /\ v.v % Unit = 0 /\ v.v >= 2 * Unit

IsWellFormed(body) ==
    /\ IsPositiveNumber(body.lambda)
    /\ body.k_list.isArray
    /\ \A i \in DOMAIN body.k_list.items : IsIntegerFrom2(body.k_list.items[i])

C26_MockRouteValidation ==
    exchange.pc = "answered" =>
        /\ ~IsWellFormed(exchange.body) =>
               exchange.status = 400 /\ exchange.error # NoError
        /\ exchange.status # 400 =>
               /\ exchange.status = 200
               /\ exchange.result.k_candidates = exchange.body.k_list.items
               /\ \E i \in DOMAIN exchange.result.k_candidates :
                      exchange.result.best_k = exchange.result.k_candidates[i]

====
